---- MODULE Spec2Model ----
(***************************************************************************)
(* Model of pr_comments: the parser (parser.py), the comment record and    *)
(* its methods (models.py), the renderers (formatter.py), the fetches      *)
(* (fetcher.py) and the command (cli.py).                                  *)
(*                                                                         *)
(* Python values are encoded as follows.                                   *)
(*   - an Optional[int] is a sequence: <<>> is None, <<n>> is the int n;   *)
(*   - a string-or-None is a string, NoneStr standing for None;            *)
(*   - a dict is a function whose DOMAIN is the set of keys present;       *)
(*   - an Optional[dict] is <<>> (None) or <<d>>;                          *)
(*   - a datetime (UTC) is its number of seconds since the epoch;          *)
(*   - a call that can raise yields Return(v) or Raise(kind).              *)
(***************************************************************************)
EXTENDS Integers, Sequences, FiniteSets, TLC

VARIABLES pc, comment_data, comments_data, comments, author, self, options, result,
          github, calls, stdout, stderr, written

vars == <<pc, comment_data, comments_data, comments, author, self, options, result,
          github, calls, stdout, stderr, written>>

\* what main acts on: the answers of the gh command, the fetches made, the
\* lines printed to the two streams and the files written
world == <<github, calls, stdout, stderr, written>>

----------------------------------------------------------------------------
(* Python values *)

None == <<>>

NoneStr == "<None>"

EmptyDict == [k \in {} |-> 0]

Return(v) == [raised |-> "", value |-> v]

Raise(kind) == [raised |-> kind]

\* truthiness of an Optional[int]: None and 0 are falsy
Truthy(o) == o # None /\ o[1] # 0

\* truthiness of an Optional[str]: None and "" are falsy
TruthyStr(s) == s # NoneStr /\ s # ""

\* Python's `a or b` on Optional[int]
Or(a, b) == IF Truthy(a) THEN a ELSE b

\* dict.get(key, default)
DictGet(d, key, default) == IF key \in DOMAIN d THEN d[key] ELSE default

----------------------------------------------------------------------------
(* Python strings.  A str is a TLA+ string; Len, SubSeq and \o act on it. *)

MinOf(a, b) == IF a <= b THEN a ELSE b

MaxOf(a, b) == IF a >= b THEN a ELSE b

\* s[i], 1-based
CharAt(s, i) == SubSeq(s, i, i)

\* s.startswith(p)
StartsWith(s, p) == Len(s) >= Len(p) /\ SubSeq(s, 1, Len(p)) = p

\* s[:n] for n >= 0
Prefix(s, n) == SubSeq(s, 1, MinOf(n, Len(s)))

\* s.split("\n"): the pieces between consecutive newlines, "" included
Split(s) ==
    LET \* the positions of the newlines, in order
        nl == SelectSeq([i \in 1..Len(s) |-> i], LAMBDA i : CharAt(s, i) = "\n")
        n  == Len(nl)
    IN  [k \in 1..(n + 1) |->
           SubSeq(s, IF k = 1 THEN 1 ELSE nl[k - 1] + 1,
                     IF k = n + 1 THEN Len(s) ELSE nl[k] - 1)]

RECURSIVE Join(_)
\* "\n".join(parts), by halves
Join(parts) ==
    IF parts = <<>> THEN ""
    ELSE IF Len(parts) = 1 THEN parts[1]
    ELSE LET h == Len(parts) \div 2
         IN  Join(SubSeq(parts, 1, h)) \o "\n" \o Join(SubSeq(parts, h + 1, Len(parts)))

RECURSIVE ReplaceNewlines(_)
\* s.replace("\n", " "), by halves
ReplaceNewlines(s) ==
    IF s = "" THEN ""
    ELSE IF Len(s) = 1 THEN (IF s = "\n" THEN " " ELSE s)
    ELSE LET h == Len(s) \div 2
         IN  ReplaceNewlines(SubSeq(s, 1, h)) \o ReplaceNewlines(SubSeq(s, h + 1, Len(s)))

SliceLast(seq, k) ==
    IF k > 0 THEN SubSeq(seq, MaxOf(1, Len(seq) - k + 1), Len(seq))
    ELSE SubSeq(seq, 1 - k, Len(seq))

\* the printable ASCII characters but the backquote, in code order from 32
\* (a TLA+ string cannot hold a backquote; "|" onwards are one place early)
Printable == " !\"#$%&'()*+,-./0123456789:;<=>?@ABCDEFGHIJKLMNOPQRSTUVWXYZ[\\]^_abcdefghijklmnopqrstuvwxyz{|}~"

\* list(s): the characters of a string
Explode(s) == [i \in 1..Len(s) |-> CharAt(s, i)] \o <<>>

PrintableChars == Explode(Printable)

\* ord(c) of a character of the model's strings
Ord(c) ==
    IF c = "\n" THEN 10
    ELSE LET i == CHOOSE k \in 1..Len(PrintableChars) : PrintableChars[k] = c
         IN  IF i <= 64 THEN 31 + i ELSE 32 + i

\* a < b on str: the order of the first differing character, else of length
StrLess(a, b) ==
    LET m    == MinOf(Len(a), Len(b))
        diff == { i \in 1..m : CharAt(a, i) # CharAt(b, i) }
    IN  IF diff = {} THEN Len(a) < Len(b)
        ELSE LET k == CHOOSE i \in diff : \A j \in diff : i <= j
             IN  Ord(CharAt(a, k)) < Ord(CharAt(b, k))

\* a < b on tuples of int: the order of the first differing item, else of
\* length
KeyLess(a, b) ==
    LET m    == MinOf(Len(a), Len(b))
        diff == { i \in 1..m : a[i] # b[i] }
    IN  IF diff = {} THEN Len(a) < Len(b)
        ELSE LET k == CHOOSE i \in diff : \A j \in diff : i <= j
             IN  a[k] < b[k]

\* a str as the tuple of its code points, which compares as the str does
StrKey(s) == [i \in 1..Len(s) |-> Ord(CharAt(s, i))]

\* a sort that puts an element before the elements of equal key
StableSort_unstable(seq, key, reverse) ==
    LET Before(i, j) == IF reverse THEN KeyLess(key[j], key[i])
                        ELSE KeyLess(key[i], key[j])
        order[n \in 0..Len(seq)] ==
            IF n = 0 THEN <<>>
            ELSE LET rest == order[n - 1]
                     k    == Cardinality({ p \in 1..Len(rest) : Before(rest[p], n) })
                 IN  SubSeq(rest, 1, k) \o <<n>> \o SubSeq(rest, k + 1, Len(rest))
        final == order[Len(seq)]
    IN  [p \in 1..Len(seq) |-> seq[final[p]]]

\* sorted(seq, key=..., reverse=...), key[i] being the key of seq[i]: each
\* element goes after the elements it does not come before, so elements of
\* equal keys keep their order, reversed or not
StableSort(seq, key, reverse) ==
    LET Before(i, j) == IF reverse THEN KeyLess(key[j], key[i])
                        ELSE KeyLess(key[i], key[j])
        order[n \in 0..Len(seq)] ==
            IF n = 0 THEN <<>>
            ELSE LET rest == order[n - 1]
                     k    == Cardinality({ p \in 1..Len(rest) : ~Before(n, rest[p]) })
                 IN  SubSeq(rest, 1, k) \o <<n>> \o SubSeq(rest, k + 1, Len(rest))
        final == order[Len(seq)]
    IN  [p \in 1..Len(seq) |-> seq[final[p]]]

RECURSIVE ConcatAll(_)
\* the lists of a list of lists, one after the other
ConcatAll(seqs) ==
    IF seqs = <<>> THEN <<>>
    ELSE ConcatAll(SubSeq(seqs, 1, Len(seqs) - 1)) \o seqs[Len(seqs)]

Pad2(n) == IF n < 10 THEN "0" \o ToString(n) ELSE ToString(n)

\* datetime.strftime("%Y-%m-%d %H:%M UTC") of an instant (seconds since the
\* epoch, UTC), by the proleptic Gregorian calendar
Strftime(t) ==
    LET days == t \div 86400
        secs == t % 86400
        z    == days + 719468
        era  == z \div 146097
        doe  == z - era * 146097
        yoe  == (doe - doe \div 1460 + doe \div 36524 - doe \div 146096) \div 365
        doy  == doe - (365 * yoe + yoe \div 4 - yoe \div 100)
        mp   == (5 * doy + 2) \div 153
        d    == doy - (153 * mp + 2) \div 5 + 1
        m    == IF mp < 10 THEN mp + 3 ELSE mp - 9
        y    == yoe + era * 400 + (IF m <= 2 THEN 1 ELSE 0)
    IN  ToString(y) \o "-" \o Pad2(m) \o "-" \o Pad2(d) \o " "
           \o Pad2(secs \div 3600) \o ":" \o Pad2((secs % 3600) \div 60) \o " UTC"

\* sep in s, sep being one character
Contains(s, sep) == \E i \in 1..Len(s) : CharAt(s, i) = sep

\* s.split(sep), sep being one character: the pieces between consecutive
\* separators, "" included
SplitOn(s, sep) ==
    LET at == SelectSeq([i \in 1..Len(s) |-> i], LAMBDA i : CharAt(s, i) = sep)
        n  == Len(at)
    IN  [k \in 1..(n + 1) |->
           SubSeq(s, IF k = 1 THEN 1 ELSE at[k - 1] + 1,
                     IF k = n + 1 THEN Len(s) ELSE at[k] - 1)]

\* s.rstrip(c), c being one character
RStrip(s, c) ==
    LET kept == { n \in 0..Len(s) : \A i \in (n + 1)..Len(s) : CharAt(s, i) = c }
    IN  SubSeq(s, 1, CHOOSE n \in kept : \A m \in kept : n <= m)

\* s.replace(old, ""): the occurrences of old are removed from left to right;
\* skip[i] is the first position the scan has not consumed once it has passed
\* position i, an occurrence being consumed whole
RemoveAll(s, old) ==
    LET Here(i) == i + Len(old) - 1 <= Len(s) /\ SubSeq(s, i, i + Len(old) - 1) = old
        skip[i \in 0..Len(s)] ==
            IF i = 0 THEN 1
            ELSE LET before == skip[i - 1]
                 IN  IF before > i THEN before
                     ELSE IF Here(i) THEN i + Len(old)
                     ELSE i + 1
        reach == [i \in 0..Len(s) |-> skip[i]]
        keep == SelectSeq([i \in 1..Len(s) |-> i],
                          LAMBDA i : reach[i - 1] <= i /\ ~Here(i))
        RECURSIVE Chars(_)
        Chars(ks) == IF ks = <<>> THEN ""
                     ELSE IF Len(ks) = 1 THEN CharAt(s, ks[1])
                     ELSE LET h == Len(ks) \div 2
                          IN  Chars(SubSeq(ks, 1, h)) \o Chars(SubSeq(ks, h + 1, Len(ks)))
    IN  Chars(keep)

----------------------------------------------------------------------------
(* parser.py *)

EPOCH == "1970-01-01T00:00:00Z"

\* the ISO-8601 strings of the model and the instants they denote
IsoTable ==
    (EPOCH :> 0) @@ ("2026-01-30T10:00:00Z" :> 1769767200)
                 @@ ("2026-01-30T15:30:00Z" :> 1769787000)

\* a parse that takes what is not a timestamp for the epoch
parse_datetime_lenient(dt_str) ==
    IF dt_str = NoneStr THEN Raise("AttributeError")
    ELSE IF dt_str \in DOMAIN IsoTable THEN Return(IsoTable[dt_str])
    ELSE Return(0)

parse_datetime(dt_str) ==
    IF dt_str = NoneStr THEN Raise("AttributeError")
    ELSE IF dt_str \in DOMAIN IsoTable THEN Return(IsoTable[dt_str])
    ELSE Raise("ValueError")

\* a parse that subscripts the principal instead of using get with a default
parse_comment_subscript(cd) ==
    IF "user" \notin DOMAIN cd THEN Raise("KeyError")
    ELSE LET user_data == cd["user"]
             created   == parse_datetime(DictGet(cd, "created_at", EPOCH))
             updated   == parse_datetime(DictGet(cd, "updated_at", EPOCH))
         IN  IF user_data = None THEN Raise("AttributeError")
             ELSE IF created.raised # "" THEN created
             ELSE IF updated.raised # "" THEN updated
             ELSE Return([id          |-> DictGet(cd, "id", 0),
                          file_path   |-> DictGet(cd, "path", "unknown"),
                          line_number |-> Or(DictGet(cd, "line", None),
                                             DictGet(cd, "original_line", None)),
                          start_line  |-> Or(DictGet(cd, "start_line", None),
                                             DictGet(cd, "original_start_line", None)),
                          author      |-> DictGet(user_data[1], "login", "unknown"),
                          body        |-> DictGet(cd, "body", ""),
                          created_at  |-> created.value,
                          updated_at  |-> updated.value,
                          diff_hunk   |-> DictGet(cd, "diff_hunk", ""),
                          html_url    |-> DictGet(cd, "html_url", "")])

parse_comment(cd) ==
    LET line_number == Or(DictGet(cd, "line", None), DictGet(cd, "original_line", None))
        start_line  == Or(DictGet(cd, "start_line", None),
                          DictGet(cd, "original_start_line", None))
        user_data   == DictGet(cd, "user", <<EmptyDict>>)
        created     == parse_datetime(DictGet(cd, "created_at", EPOCH))
        updated     == parse_datetime(DictGet(cd, "updated_at", EPOCH))
    IN  IF user_data = None THEN Raise("AttributeError")
        ELSE IF created.raised # "" THEN created
        ELSE IF updated.raised # "" THEN updated
        ELSE Return([id          |-> DictGet(cd, "id", 0),
                     file_path   |-> DictGet(cd, "path", "unknown"),
                     line_number |-> line_number,
                     start_line  |-> start_line,
                     author      |-> DictGet(user_data[1], "login", "unknown"),
                     body        |-> DictGet(cd, "body", ""),
                     created_at  |-> created.value,
                     updated_at  |-> updated.value,
                     diff_hunk   |-> DictGet(cd, "diff_hunk", ""),
                     html_url    |-> DictGet(cd, "html_url", "")])

RECURSIVE parse_comments_reversed(_, _, _)
\* a comprehension that builds the list back to front
parse_comments_reversed(cds, i, acc) ==
    IF i > Len(cds) THEN Return(acc)
    ELSE LET c == parse_comment(cds[i])
         IN  IF c.raised # "" THEN c
             ELSE parse_comments_reversed(cds, i + 1, <<c.value>> \o acc)

RECURSIVE parse_comments_from(_, _, _)
\* the list comprehension, left to right; the first raise propagates
parse_comments_from(cds, i, acc) ==
    IF i > Len(cds) THEN Return(acc)
    ELSE LET c == parse_comment(cds[i])
         IN  IF c.raised # "" THEN c
             ELSE parse_comments_from(cds, i + 1, Append(acc, c.value))

parse_comments(cds) == parse_comments_from(cds, 1, <<>>)

Lower(s) == IF s = "Alice" THEN "alice" ELSE s

\* a filter that compares case-insensitively
filter_by_author_nocase(cs, a) ==
    IF ~TruthyStr(a) THEN cs
    ELSE SelectSeq(cs, LAMBDA c : Lower(c.author) = Lower(a))

\* a filter that tests `author is None` instead of `not author`
filter_by_author_none_only(cs, a) ==
    IF a = NoneStr THEN cs
    ELSE SelectSeq(cs, LAMBDA c : c.author = a)

filter_by_author(cs, a) ==
    IF ~TruthyStr(a) THEN cs
    ELSE SelectSeq(cs, LAMBDA c : c.author = a)

(* an insertion-ordered dict: the keys in insertion order and the mapping *)
EmptyOrderedDict == [keys |-> <<>>, map |-> EmptyDict]

\* a dict whose assignment to a key it holds moves the key to the end
OrderedDictSet_move_to_end(d, key, v) ==
    IF key \in DOMAIN d.map
    THEN [keys |-> Append(SelectSeq(d.keys, LAMBDA k : k # key), key),
          map  |-> [d.map EXCEPT ![key] = v]]
    ELSE [keys |-> Append(d.keys, key), map |-> d.map @@ (key :> v)]

OrderedDictSet(d, key, v) ==
    IF key \in DOMAIN d.map
    THEN [d EXCEPT !.map[key] = v]
    ELSE [keys |-> Append(d.keys, key), map |-> d.map @@ (key :> v)]

OrderedDictValues(d) == [i \in 1..Len(d.keys) |-> d.map[d.keys[i]]]

RECURSIVE most_recent_scan_oldest(_, _, _)
\* a scan that replaces on an older record
most_recent_scan_oldest(cs, i, file_comments) ==
    IF i > Len(cs) THEN file_comments
    ELSE LET comment == cs[i]
             known   == comment.file_path \in DOMAIN file_comments.map
         IN  IF ~known \/ comment.updated_at < file_comments.map[comment.file_path].updated_at
             THEN most_recent_scan_oldest(cs, i + 1,
                                   OrderedDictSet(file_comments, comment.file_path, comment))
             ELSE most_recent_scan_oldest(cs, i + 1, file_comments)

RECURSIVE most_recent_scan_ge(_, _, _)
\* a scan that also replaces on an equal updated_at
most_recent_scan_ge(cs, i, file_comments) ==
    IF i > Len(cs) THEN file_comments
    ELSE LET comment == cs[i]
             known   == comment.file_path \in DOMAIN file_comments.map
         IN  IF ~known \/ comment.updated_at >= file_comments.map[comment.file_path].updated_at
             THEN most_recent_scan_ge(cs, i + 1,
                                   OrderedDictSet(file_comments, comment.file_path, comment))
             ELSE most_recent_scan_ge(cs, i + 1, file_comments)

RECURSIVE most_recent_scan_last(_, _, _)
\* a scan that replaces on a record that is not older
most_recent_scan_last(cs, i, file_comments) ==
    IF i > Len(cs) THEN file_comments
    ELSE LET comment == cs[i]
             known   == comment.file_path \in DOMAIN file_comments.map
         IN  IF ~known \/ ~(comment.updated_at < file_comments.map[comment.file_path].updated_at)
             THEN most_recent_scan_last(cs, i + 1,
                                   OrderedDictSet(file_comments, comment.file_path, comment))
             ELSE most_recent_scan_last(cs, i + 1, file_comments)

RECURSIVE most_recent_scan(_, _, _)
most_recent_scan(cs, i, file_comments) ==
    IF i > Len(cs) THEN file_comments
    ELSE LET comment == cs[i]
             known   == comment.file_path \in DOMAIN file_comments.map
         IN  IF ~known \/ comment.updated_at > file_comments.map[comment.file_path].updated_at
             THEN most_recent_scan(cs, i + 1,
                                   OrderedDictSet(file_comments, comment.file_path, comment))
             ELSE most_recent_scan(cs, i + 1, file_comments)

get_most_recent_per_file(cs) == OrderedDictValues(most_recent_scan(cs, 1, EmptyOrderedDict))

RECURSIVE group_scan_prepend(_, _, _)
\* a grouping that inserts each record at the front of its group
group_scan_prepend(cs, i, grouped) ==
    IF i > Len(cs) THEN grouped
    ELSE LET comment == cs[i]
             g0 == IF comment.file_path \notin DOMAIN grouped.map
                   THEN OrderedDictSet(grouped, comment.file_path, <<>>)
                   ELSE grouped
         IN  group_scan_prepend(cs, i + 1,
                        [g0 EXCEPT !.map[comment.file_path] = <<comment>> \o @])

RECURSIVE group_scan(_, _, _)
group_scan(cs, i, grouped) ==
    IF i > Len(cs) THEN grouped
    ELSE LET comment == cs[i]
             g0 == IF comment.file_path \notin DOMAIN grouped.map
                   THEN OrderedDictSet(grouped, comment.file_path, <<>>)
                   ELSE grouped
         IN  group_scan(cs, i + 1,
                        [g0 EXCEPT !.map[comment.file_path] = Append(@, comment)])

group_by_file(cs) == group_scan(cs, 1, EmptyOrderedDict)

----------------------------------------------------------------------------
(* models.py *)

get_line_info(c) ==
    IF Truthy(c.start_line) /\ Truthy(c.line_number) /\ c.start_line # c.line_number
    THEN "lines " \o ToString(c.start_line[1]) \o "-" \o ToString(c.line_number[1])
    ELSE IF Truthy(c.line_number)
    THEN "line " \o ToString(c.line_number[1])
    ELSE "line unknown"

IsHeader(line) == StartsWith(line, "@@")

\* a snippet that keeps the first max_lines lines
get_code_snippet_first(c, max_lines) ==
    IF c.diff_hunk = "" THEN ""
    ELSE LET content_lines == SelectSeq(Split(c.diff_hunk), LAMBDA l : ~IsHeader(l))
         IN  IF Len(content_lines) <= max_lines THEN Join(content_lines)
             ELSE Join(SubSeq(content_lines, 1, max_lines))

\* a snippet that drops the header only when it is the first line
get_code_snippet_first_header(c, max_lines) ==
    IF c.diff_hunk = "" THEN ""
    ELSE LET lines == Split(c.diff_hunk)
             content_lines == IF IsHeader(lines[1]) THEN Tail(lines) ELSE lines
         IN  IF Len(content_lines) <= max_lines THEN Join(content_lines)
             ELSE Join(SliceLast(content_lines, max_lines))

get_code_snippet(c, max_lines) ==
    IF c.diff_hunk = "" THEN ""
    ELSE LET content_lines == SelectSeq(Split(c.diff_hunk), LAMBDA l : ~IsHeader(l))
         IN  IF Len(content_lines) <= max_lines THEN Join(content_lines)
             ELSE Join(SliceLast(content_lines, max_lines))

----------------------------------------------------------------------------
(* formatter.py.  A TLA+ string cannot hold a backquote or a character     *)
(* outside ASCII: BACKQUOTE, PAGE and BRANCH stand for the three the        *)
(* formatter writes.                                                        *)

BACKQUOTE == "'"

PAGE == "[file]"

BRANCH == "+-"

FENCE == BACKQUOTE \o BACKQUOTE \o BACKQUOTE

PREVIEW_LENGTH == 100

\* the code block of a comment, under the given label
snippet_block_always(comment, include_snippet, snippet_lines, label) ==
    IF include_snippet
    THEN <<label, FENCE, get_code_snippet(comment, snippet_lines), FENCE, "">>
    ELSE <<>>

snippet_block(comment, include_snippet, snippet_lines, label) ==
    IF include_snippet
    THEN LET snippet == get_code_snippet(comment, snippet_lines)
         IN  IF snippet # "" THEN <<label, FENCE, snippet, FENCE, "">> ELSE <<>>
    ELSE <<>>

format_comment_for_llm(comment, include_snippet, snippet_lines) ==
    Join(<<"### " \o comment.file_path \o " (" \o get_line_info(comment) \o ")",
           "**Author:** " \o comment.author,
           "**Date:** " \o Strftime(comment.updated_at),
           "">>
         \o snippet_block(comment, include_snippet, snippet_lines, "**Code context:**")
         \o <<"**Comment:**", comment.body, "">>)

LineKey(c) == IF Truthy(c.line_number) THEN c.line_number[1] ELSE 0

\* sorted(grouped.keys()), as they were inserted
sorted_keys_unsorted(grouped) == grouped.keys

\* sorted(grouped.keys())
sorted_keys(grouped) ==
    StableSort(grouped.keys,
               [k \in 1..Len(grouped.keys) |-> StrKey(grouped.keys[k])], FALSE)

\* a sort by date only
sort_by_line_then_date_no_line(file_comments) ==
    StableSort(file_comments,
               [k \in 1..Len(file_comments) |-> <<file_comments[k].updated_at>>], FALSE)

\* file_comments.sort(key=lambda c: (c.line_number or 0, c.updated_at))
sort_by_line_then_date(file_comments) ==
    StableSort(file_comments,
               [k \in 1..Len(file_comments) |->
                   <<LineKey(file_comments[k]), file_comments[k].updated_at>>], FALSE)

\* sorted(file_comments, key=lambda c: c.line_number or 0)
sort_by_line(file_comments) ==
    StableSort(file_comments,
               [k \in 1..Len(file_comments) |-> <<LineKey(file_comments[k])>>], FALSE)

\* a sort by date, oldest first
sort_by_date_desc_ascending(cs) ==
    StableSort(cs, [k \in 1..Len(cs) |-> <<cs[k].updated_at>>], FALSE)

\* sorted(comments, key=lambda c: c.updated_at, reverse=True)
sort_by_date_desc(cs) ==
    StableSort(cs, [k \in 1..Len(cs) |-> <<cs[k].updated_at>>], TRUE)

\* file_comments.sort() sorts in place the list it is called on, which is a
\* list made by group_by_file, not the list passed to the renderer
sorted_in_place_comments == "comments"

sorted_in_place == "grouped[file_path]"

\* the list passed to format_comments_grouped or format_for_claude, after the call
argument_after_sort(cs) ==
    IF sorted_in_place = "comments" THEN sort_by_line_then_date(cs) ELSE cs

\* a header that counts the comments in both lines
grouped_header_wrong_files(cs, grouped) ==
    <<"# PR Comments Summary",
      "Total comments: " \o ToString(Len(cs)),
      "Files with comments: " \o ToString(Len(cs)),
      "">>

grouped_header(cs, grouped) ==
    <<"# PR Comments Summary",
      "Total comments: " \o ToString(Len(cs)),
      "Files with comments: " \o ToString(Len(grouped.keys)),
      "">>

format_comments_grouped(cs, include_snippet, snippet_lines) ==
    IF cs = <<>> THEN "No comments found."
    ELSE LET grouped == group_by_file(cs)
             files   == sorted_keys(grouped)
             Section(file_path) ==
                 LET file_comments == sort_by_line_then_date(grouped.map[file_path])
                 IN  <<"## " \o file_path,
                       "(" \o ToString(Len(file_comments)) \o " comment(s))",
                       "">>
                     \o ConcatAll([j \in 1..Len(file_comments) |->
                           <<format_comment_for_llm(file_comments[j], include_snippet,
                                                    snippet_lines),
                             "---", "">>])
         IN  Join(grouped_header(cs, grouped)
                  \o ConcatAll([k \in 1..Len(files) |-> Section(files[k])]))

\* a flat rendering without the test for no comments
format_comments_flat_no_empty_test(cs, include_snippet, snippet_lines) ==
    LET sorted_comments == sort_by_date_desc(cs)
    IN  Join(<<"# PR Comments (" \o ToString(Len(cs)) \o " total)", "">>
             \o ConcatAll([i \in 1..Len(sorted_comments) |->
                   <<"## Comment " \o ToString(i),
                     format_comment_for_llm(sorted_comments[i], include_snippet,
                                            snippet_lines),
                     "---", "">>]))

format_comments_flat(cs, include_snippet, snippet_lines) ==
    IF cs = <<>> THEN "No comments found."
    ELSE LET sorted_comments == sort_by_date_desc(cs)
         IN  Join(<<"# PR Comments (" \o ToString(Len(cs)) \o " total)", "">>
                  \o ConcatAll([i \in 1..Len(sorted_comments) |->
                        <<"## Comment " \o ToString(i),
                          format_comment_for_llm(sorted_comments[i], include_snippet,
                                                 snippet_lines),
                          "---", "">>]))

\* a preview that keeps the newlines
body_preview_keep_newlines(body) ==
    Prefix(body, PREVIEW_LENGTH)
       \o (IF Len(body) > PREVIEW_LENGTH THEN "..." ELSE "")

body_preview(body) ==
    ReplaceNewlines(Prefix(body, PREVIEW_LENGTH))
       \o (IF Len(body) > PREVIEW_LENGTH THEN "..." ELSE "")

format_comments_minimal(cs) ==
    IF cs = <<>> THEN "No comments found."
    ELSE LET grouped == group_by_file(cs)
             files   == sorted_keys(grouped)
             Section(file_path) ==
                 LET file_comments == sort_by_line(grouped.map[file_path])
                 IN  <<PAGE \o " " \o file_path>>
                     \o [j \in 1..Len(file_comments) |->
                           "  " \o BRANCH \o " " \o get_line_info(file_comments[j])
                              \o " (" \o file_comments[j].author \o "): "
                              \o body_preview(file_comments[j].body)]
                     \o <<"">>
         IN  Join(<<"PR Comments: " \o ToString(Len(cs)) \o " total across "
                       \o ToString(Len(grouped.keys)) \o " files",
                    "">>
                  \o ConcatAll([k \in 1..Len(files) |-> Section(files[k])]))

\* a header that always writes the title and URL lines
claude_header_always(cs, grouped, pr_url, pr_title) ==
    <<"# Pull Request Review Comments">>
    \o <<"**PR Title:** " \o pr_title>>
    \o <<"**PR URL:** " \o pr_url>>
    \o <<"**Total Comments:** " \o ToString(Len(cs)),
         "**Files Affected:** " \o ToString(Len(grouped.keys)),
         "",
         "Below are the review comments that need to be addressed. Each comment includes:",
         "- The file path and line number(s)",
         "- A code snippet showing the context",
         "- The reviewer's comment/feedback",
         "",
         "---",
         "">>

claude_header(cs, grouped, pr_url, pr_title) ==
    <<"# Pull Request Review Comments">>
    \o (IF TruthyStr(pr_title) THEN <<"**PR Title:** " \o pr_title>> ELSE <<>>)
    \o (IF TruthyStr(pr_url) THEN <<"**PR URL:** " \o pr_url>> ELSE <<>>)
    \o <<"**Total Comments:** " \o ToString(Len(cs)),
         "**Files Affected:** " \o ToString(Len(grouped.keys)),
         "",
         "Below are the review comments that need to be addressed. Each comment includes:",
         "- The file path and line number(s)",
         "- A code snippet showing the context",
         "- The reviewer's comment/feedback",
         "",
         "---",
         "">>

claude_footer ==
    <<"## Instructions for Addressing Comments",
      "",
      "Please review each comment above and make the necessary changes to the code.",
      "For each comment, consider:",
      "1. What specific change is being requested?",
      "2. Is the suggestion valid and should be implemented?",
      "3. Are there any related changes needed in other parts of the codebase?">>

format_for_claude(cs, pr_url, pr_title, include_snippet, snippet_lines) ==
    IF cs = <<>> THEN "No review comments found on this PR."
    ELSE LET grouped == group_by_file(cs)
             files   == sorted_keys(grouped)
             Block(comment) ==
                 <<"### " \o get_line_info(comment),
                   "**Reviewer:** " \o comment.author,
                   "">>
                 \o snippet_block(comment, include_snippet, snippet_lines,
                                  "**Code being reviewed:**")
                 \o <<"**Review comment:**", comment.body, "", "---", "">>
             Section(file_path) ==
                 LET file_comments == sort_by_line_then_date(grouped.map[file_path])
                 IN  <<"## File: " \o BACKQUOTE \o file_path \o BACKQUOTE, "">>
                     \o ConcatAll([j \in 1..Len(file_comments) |-> Block(file_comments[j])])
         IN  Join(claude_header(cs, grouped, pr_url, pr_title)
                  \o ConcatAll([k \in 1..Len(files) |-> Section(files[k])])
                  \o claude_footer)

----------------------------------------------------------------------------
(* fetcher.py.  What `gh api <endpoint>` does is an answer: the return code *)
(* of the process, its stderr, and what json.loads makes of its stdout.     *)

\* an exception that carries a message
RaiseWith(kind, message) == [raised |-> kind, message |-> message]

\* the answer for an endpoint GitHub does not know
NOT_FOUND ==
    [returncode |-> 1, stderr |-> "gh: Not Found (HTTP 404)",
     loads |-> RaiseWith("JSONDecodeError", "Expecting value: line 1 column 1 (char 0)")]

\* subprocess.run(["gh", "api", endpoint], check=True), then json.loads
gh_api(gh, endpoint, failed) ==
    LET answer == DictGet(gh, endpoint, NOT_FOUND)
    IN  IF answer.returncode # 0
        THEN RaiseWith("GitHubAPIError", failed \o answer.stderr)
        ELSE IF answer.loads.raised = "JSONDecodeError"
        THEN RaiseWith("GitHubAPIError",
                       "Failed to parse API response: " \o answer.loads.message)
        ELSE answer.loads

comments_endpoint(owner, repo, pr_number) ==
    "repos/" \o owner \o "/" \o repo \o "/pulls/" \o ToString(pr_number) \o "/comments"

info_endpoint(owner, repo, pr_number) ==
    "repos/" \o owner \o "/" \o repo \o "/pulls/" \o ToString(pr_number)

fetch_pr_comments(gh, owner, repo, pr_number) ==
    gh_api(gh, comments_endpoint(owner, repo, pr_number), "Failed to fetch PR comments: ")

fetch_pr_info(gh, owner, repo, pr_number) ==
    gh_api(gh, info_endpoint(owner, repo, pr_number), "Failed to fetch PR info: ")

----------------------------------------------------------------------------
(* cli.py *)

\* int(s) for the strings of the model, which hold no sign, blank or
\* underscore: the digits' value, or ValueError
int(s) ==
    LET digits == "0123456789"
        Digit(c) == { d \in 0..9 : CharAt(digits, d + 1) = c }
        value[n \in 0..Len(s)] ==
            IF n = 0 THEN 0
            ELSE 10 * value[n - 1] + (CHOOSE d \in Digit(CharAt(s, n)) : TRUE)
    IN  IF s # "" /\ \A i \in 1..Len(s) : Digit(CharAt(s, i)) # {}
        THEN Return(value[Len(s)])
        ELSE RaiseWith("ValueError",
                       "invalid literal for int() with base 10: '" \o s \o "'")

GITHUB == "https://github.com/"

\* a parse that takes any GitHub URL of four parts or more for a pull URL
parse_pr_url_any_kind(url0) ==
    LET url == RStrip(url0, "/")
        parts == SplitOn(RemoveAll(url, GITHUB), "/")
        Shorthand ==
            IF Contains(url, "#")
            THEN LET halves == SplitOn(url, "#")
                 IN  IF Len(halves) # 2
                     THEN RaiseWith("ValueError", "too many values to unpack (expected 2)")
                     ELSE IF Contains(halves[1], "/")
                     THEN LET names == SplitOn(halves[1], "/")
                              n == int(halves[2])
                          IN  IF Len(names) # 2
                              THEN RaiseWith("ValueError",
                                             "too many values to unpack (expected 2)")
                              ELSE IF n.raised # "" THEN n
                              ELSE Return(<<names[1], names[2], n.value>>)
                     ELSE RaiseWith("ValueError", "Cannot parse PR URL: " \o url)
            ELSE RaiseWith("ValueError", "Cannot parse PR URL: " \o url)
    IN  IF StartsWith(url, GITHUB) /\ Len(parts) >= 4
        THEN LET n == int(parts[4])
             IN  IF n.raised # "" THEN n
                 ELSE Return(<<parts[1], parts[2], n.value>>)
        ELSE Shorthand

parse_pr_url(url0) ==
    LET url == RStrip(url0, "/")
        parts == SplitOn(RemoveAll(url, GITHUB), "/")
        \* owner/repo#number; an unpacking of other than two values raises
        Shorthand ==
            IF Contains(url, "#")
            THEN LET halves == SplitOn(url, "#")
                 IN  IF Len(halves) # 2
                     THEN RaiseWith("ValueError", "too many values to unpack (expected 2)")
                     ELSE IF Contains(halves[1], "/")
                     THEN LET names == SplitOn(halves[1], "/")
                              n == int(halves[2])
                          IN  IF Len(names) # 2
                              THEN RaiseWith("ValueError",
                                             "too many values to unpack (expected 2)")
                              ELSE IF n.raised # "" THEN n
                              ELSE Return(<<names[1], names[2], n.value>>)
                     ELSE RaiseWith("ValueError", "Cannot parse PR URL: " \o url)
            ELSE RaiseWith("ValueError", "Cannot parse PR URL: " \o url)
    IN  IF StartsWith(url, GITHUB) /\ Len(parts) >= 4 /\ parts[3] = "pull"
        THEN LET n == int(parts[4])
             IN  IF n.raised # "" THEN n
                 ELSE Return(<<parts[1], parts[2], n.value>>)
        ELSE Shorthand

\* a fetch that asks for the pull request before its comments
fetch_info_first(gh, owner, repo, pr_number) ==
    LET pr_info == fetch_pr_info(gh, owner, repo, pr_number)
        raw_comments == fetch_pr_comments(gh, owner, repo, pr_number)
        first  == [fn |-> "fetch_pr_info", owner |-> owner, repo |-> repo,
                   pr_number |-> pr_number]
        second == [fn |-> "fetch_pr_comments", owner |-> owner, repo |-> repo,
                   pr_number |-> pr_number]
    IN  IF pr_info.raised # "" THEN [calls |-> <<first>>, outcome |-> pr_info]
        ELSE IF raw_comments.raised # ""
        THEN [calls |-> <<first, second>>, outcome |-> raw_comments]
        ELSE [calls |-> <<first, second>>,
              outcome |-> Return([raw_comments |-> raw_comments.value,
                                  pr_info |-> pr_info.value])]

\* the two fetches of the try block: the calls made and what came of them
fetch_comments(gh, owner, repo, pr_number) ==
    LET raw_comments == fetch_pr_comments(gh, owner, repo, pr_number)
        pr_info == fetch_pr_info(gh, owner, repo, pr_number)
        first  == [fn |-> "fetch_pr_comments", owner |-> owner, repo |-> repo,
                   pr_number |-> pr_number]
        second == [fn |-> "fetch_pr_info", owner |-> owner, repo |-> repo,
                   pr_number |-> pr_number]
    IN  IF raw_comments.raised # "" THEN [calls |-> <<first>>, outcome |-> raw_comments]
        ELSE IF pr_info.raised # ""
        THEN [calls |-> <<first, second>>, outcome |-> pr_info]
        ELSE [calls |-> <<first, second>>,
              outcome |-> Return([raw_comments |-> raw_comments.value,
                                  pr_info |-> pr_info.value])]

RECURSIVE json_escape(_)
\* the characters of a JSON string, by halves: the quote, the backslash and
\* the newline are escaped
json_escape(s) ==
    IF s = "" THEN ""
    ELSE IF Len(s) = 1
    THEN (CASE s = "\"" -> "\\\""
            [] s = "\\" -> "\\\\"
            [] s = "\n" -> "\\n"
            [] OTHER    -> s)
    ELSE LET h == Len(s) \div 2
         IN  json_escape(SubSeq(s, 1, h)) \o json_escape(SubSeq(s, h + 1, Len(s)))

\* json.dumps of a str or None
json_str(s) == IF s = NoneStr THEN "null" ELSE "\"" \o json_escape(s) \o "\""

\* json.dumps(entries, indent=2) of the list of six-key dicts main builds
json_dumps(entries) ==
    LET Entry(e) ==
            <<"  {",
              "    \"file\": " \o json_str(e.file) \o ",",
              "    \"line\": " \o (IF e.line = None THEN "null" ELSE ToString(e.line[1])) \o ",",
              "    \"author\": " \o json_str(e.author) \o ",",
              "    \"body\": " \o json_str(e.body) \o ",",
              "    \"snippet\": " \o json_str(e.snippet) \o ",",
              "    \"url\": " \o json_str(e.url)>>
        Closed(k) == <<IF k < Len(entries) THEN "  }," ELSE "  }">>
    IN  IF entries = <<>> THEN "[]"
        ELSE Join(<<"[">>
                  \o ConcatAll([k \in 1..Len(entries) |-> Entry(entries[k]) \o Closed(k)])
                  \o <<"]">>)

\* the first line of what parser.print_help() prints
USAGE == "usage: pr-comments [-h] [--owner OWNER] [--repo REPO] [--pr-number PR_NUMBER]"

\* filters applied the other way round
apply_filters_most_recent_first(cs, parsed) ==
    LET recent == IF parsed.most_recent THEN get_most_recent_per_file(cs) ELSE cs
    IN  IF TruthyStr(parsed.author) THEN filter_by_author(recent, parsed.author)
        ELSE recent

\* # Apply filters
apply_filters(cs, parsed) ==
    LET by_author == IF TruthyStr(parsed.author) THEN filter_by_author(cs, parsed.author)
                     ELSE cs
    IN  IF parsed.most_recent THEN get_most_recent_per_file(by_author) ELSE by_author

\* entries that carry the snippet whether or not snippets are asked for
json_entries_snippet_always(cs, include_snippet, snippet_lines) ==
    [k \in 1..Len(cs) |->
       [file    |-> cs[k].file_path,
        line    |-> cs[k].line_number,
        author  |-> cs[k].author,
        body    |-> cs[k].body,
        snippet |-> get_code_snippet(cs[k], snippet_lines),
        url     |-> cs[k].html_url]]

\* the list of dicts of the json form, one for each record, in order
json_entries(cs, include_snippet, snippet_lines) ==
    [k \in 1..Len(cs) |->
       [file    |-> cs[k].file_path,
        line    |-> cs[k].line_number,
        author  |-> cs[k].author,
        body    |-> cs[k].body,
        snippet |-> IF include_snippet THEN get_code_snippet(cs[k], snippet_lines)
                    ELSE NoneStr,
        url     |-> cs[k].html_url]]

\* # Format output
format_output(cs, pr_info, parsed) ==
    LET include_snippet == ~parsed.no_snippet
        snippet_lines   == parsed.snippet_lines
    IN  CASE parsed.format = "json" ->
                 json_dumps(json_entries(cs, include_snippet, snippet_lines))
          [] parsed.format = "grouped" ->
                 format_comments_grouped(cs, include_snippet, snippet_lines)
          [] parsed.format = "flat" ->
                 format_comments_flat(cs, include_snippet, snippet_lines)
          [] parsed.format = "minimal" -> format_comments_minimal(cs)
          [] OTHER ->
                 format_for_claude(cs, DictGet(pr_info, "html_url", NoneStr),
                                   DictGet(pr_info, "title", NoneStr),
                                   include_snippet, snippet_lines)

\* # Determine owner, repo, and PR number: the triple, the ValueError of
\* parse_pr_url, or neither a locator nor the three options ("usage")
resolve(parsed) ==
    IF TruthyStr(parsed.pr) THEN parse_pr_url(parsed.pr)
    ELSE IF TruthyStr(parsed.owner) /\ TruthyStr(parsed.repo) /\ Truthy(parsed.pr_number)
    THEN Return(<<parsed.owner, parsed.repo, parsed.pr_number[1]>>)
    ELSE Raise("usage")

----------------------------------------------------------------------------
(* Inputs *)

MaxRaw == 3

MaxComments == 3

MaxLine == 4

NoComment == EmptyDict

NoResult == [raised |-> "none"]

NoOptions == EmptyDict

\* no command has run: nothing fetched, printed or written
NoWorld ==
    /\ github = EmptyDict
    /\ calls = <<>>
    /\ stdout = <<>>
    /\ stderr = <<>>
    /\ written = EmptyDict

\* a raw key is missing, or present with one of the values D
Opt(key, D) == {EmptyDict} \cup {key :> v : v \in D}

LineValues == {None, <<0>>, <<42>>}

OriginalLineValues == {None, <<0>>, <<41>>}

StringValues == {NoneStr, "x"}

UserValues == {None, <<EmptyDict>>, <<"login" :> NoneStr>>, <<"login" :> "alice">>}

\* the four line keys, in every combination
LineParts ==
    { c @@ d @@ e @@ f :
        c \in Opt("line", LineValues),
        d \in Opt("original_line", OriginalLineValues),
        e \in Opt("start_line", LineValues),
        f \in Opt("original_start_line", OriginalLineValues) }

TypicalLineParts ==
    { EmptyDict,
      ("line" :> None) @@ ("original_line" :> <<41>>)
         @@ ("start_line" :> None) @@ ("original_start_line" :> None) }

\* the other eight keys, in every combination
RestParts ==
    { a @@ b @@ g @@ h @@ i @@ j @@ k @@ l :
        a \in Opt("id", {7}),
        b \in Opt("path", {NoneStr, "a.py"}),
        g \in Opt("user", UserValues),
        h \in Opt("body", StringValues),
        i \in Opt("created_at", {"2026-01-30T10:00:00Z"}),
        j \in Opt("updated_at", {NoneStr, "not-a-date", "2026-01-30T15:30:00Z"}),
        k \in Opt("diff_hunk", StringValues),
        l \in Opt("html_url", StringValues) }

TypicalRestParts ==
    { EmptyDict,
      ("id" :> 7) @@ ("path" :> "a.py") @@ ("user" :> <<"login" :> "alice">>)
         @@ ("body" :> "x") @@ ("created_at" :> "2026-01-30T10:00:00Z")
         @@ ("updated_at" :> "2026-01-30T15:30:00Z")
         @@ ("diff_hunk" :> "x") @@ ("html_url" :> "x") }

\* the raw records of parse_comments: id and updated_at vary
SmallRawRecords ==
    { a @@ j :
        a \in Opt("id", {1, 2}),
        j \in Opt("updated_at", {"not-a-date", "2026-01-30T10:00:00Z"}) }

SeqsUpTo(S, n) == UNION { [1..m -> S] : m \in 0..n }

----------------------------------------------------------------------------
(* parse_comment applied to one raw record *)

InitParseOne ==
    /\ pc = "start"
    /\ \/ \E lp \in LineParts, rp \in TypicalRestParts : comment_data = lp @@ rp
       \/ \E lp \in TypicalLineParts, rp \in RestParts : comment_data = lp @@ rp
    /\ comments_data = <<>>
    /\ comments = <<>>
    /\ author = NoneStr
    /\ self = NoComment
    /\ options = NoOptions
    /\ result = NoResult
    /\ NoWorld

ParseComment ==
    /\ pc = "start"
    /\ result' = parse_comment(comment_data)
    /\ pc' = "parse_comment"
    /\ UNCHANGED <<world, comment_data, comments_data, comments, author, self, options>>

NextParseOne == ParseComment

SpecParseOne == InitParseOne /\ [][NextParseOne]_vars

----------------------------------------------------------------------------
(* parse_comments applied to a sequence of raw records *)

InitParseMany ==
    /\ pc = "start"
    /\ comment_data = EmptyDict
    /\ comments_data \in SeqsUpTo(SmallRawRecords, MaxRaw)
    /\ comments = <<>>
    /\ author = NoneStr
    /\ self = NoComment
    /\ options = NoOptions
    /\ result = NoResult
    /\ NoWorld

ParseComments ==
    /\ pc = "start"
    /\ result' = parse_comments(comments_data)
    /\ pc' = "parse_comments"
    /\ UNCHANGED <<world, comment_data, comments_data, comments, author, self, options>>

NextParseMany == ParseComments

SpecParseMany == InitParseMany /\ [][NextParseMany]_vars

----------------------------------------------------------------------------
(* the pipeline stages applied to a sequence of comment records *)

FilePaths == {"a.py", "b.py"}

Authors == {"alice", "Alice"}

AuthorArgs == {NoneStr, "", "alice", "Alice", "bob"}

Instants == {1769767200, 1769787000}

\* a comment record; ids are unique within one comment set
Comment(i, f, a, u, ln, sl) ==
    [id |-> i, file_path |-> f, line_number |-> ln, start_line |-> sl,
     author |-> a, body |-> "x", created_at |-> 1769767200, updated_at |-> u,
     diff_hunk |-> "", html_url |-> ""]

CommentSeqs ==
    UNION { { [i \in 1..m |-> Comment(i, s[i][1], s[i][2], s[i][3], <<42>>, None)] :
                s \in [1..m -> FilePaths \X Authors \X Instants] } : m \in 0..MaxComments }

InitPipe ==
    /\ pc = "start"
    /\ comment_data = EmptyDict
    /\ comments_data = <<>>
    /\ comments \in CommentSeqs
    /\ author = NoneStr
    /\ self = NoComment
    /\ options = NoOptions
    /\ result = NoResult
    /\ NoWorld

FilterByAuthor ==
    /\ pc = "start"
    /\ \E a \in AuthorArgs :
         /\ author' = a
         /\ result' = filter_by_author(comments, a)
    /\ pc' = "filter_by_author"
    /\ UNCHANGED <<world, comment_data, comments_data, comments, self, options>>

GetMostRecentPerFile ==
    /\ pc = "start"
    /\ result' = get_most_recent_per_file(comments)
    /\ pc' = "get_most_recent_per_file"
    /\ UNCHANGED <<world, comment_data, comments_data, comments, author, self, options>>

GroupByFile ==
    /\ pc = "start"
    /\ result' = group_by_file(comments)
    /\ pc' = "group_by_file"
    /\ UNCHANGED <<world, comment_data, comments_data, comments, author, self, options>>

NextPipe == FilterByAuthor \/ GetMostRecentPerFile \/ GroupByFile

SpecPipe == InitPipe /\ [][NextPipe]_vars

----------------------------------------------------------------------------
(* the methods of one comment record *)

OptionalLines == {None} \cup { <<n>> : n \in -2..MaxLine }

InitModel ==
    /\ pc = "start"
    /\ comment_data = EmptyDict
    /\ comments_data = <<>>
    /\ comments = <<>>
    /\ author = NoneStr
    /\ \E ln \in OptionalLines, sl \in OptionalLines :
         self = Comment(1, "a.py", "alice", 1769767200, ln, sl)
    /\ options = NoOptions
    /\ result = NoResult
    /\ NoWorld

GetLineInfo ==
    /\ pc = "start"
    /\ result' = get_line_info(self)
    /\ pc' = "get_line_info"
    /\ UNCHANGED <<world, comment_data, comments_data, comments, author, self, options>>

NextModel == GetLineInfo

SpecModel == InitModel /\ [][NextModel]_vars

----------------------------------------------------------------------------
(* get_code_snippet applied to one comment record *)

MaxHunkLines == 3

MaxSnippetLines == 3

HunkLines == {"@@ -1,2 +1,3 @@", " ctx", "+new", "+@@", ""}

\* the diff hunks of up to MaxHunkLines lines; "" is the hunk of no line
Hunks == { Join(ls) : ls \in SeqsUpTo(HunkLines, MaxHunkLines) }

WithHunk(c, h) == [c EXCEPT !.diff_hunk = h]

InitSnippet ==
    /\ pc = "start"
    /\ comment_data = EmptyDict
    /\ comments_data = <<>>
    /\ comments = <<>>
    /\ author = NoneStr
    /\ \E h \in Hunks : self = WithHunk(Comment(1, "a.py", "alice", 1769767200, <<42>>, None), h)
    /\ options = NoOptions
    /\ result = NoResult
    /\ NoWorld

GetCodeSnippet ==
    /\ pc = "start"
    /\ \E max_lines \in 0..MaxSnippetLines :
         /\ options' = [max_lines |-> max_lines]
         /\ result' = get_code_snippet(self, max_lines)
    /\ pc' = "get_code_snippet"
    /\ UNCHANGED <<world, comment_data, comments_data, comments, author, self>>

NextSnippet == GetCodeSnippet

SpecSnippet == InitSnippet /\ [][NextSnippet]_vars

----------------------------------------------------------------------------
(* the renderers applied to a sequence of comment records *)

MaxRendered == 3

MaxBlocks == 2

DEFAULT_SNIPPET_LINES == 10

CLAUDE_SNIPPET_LINES == 15

FormatPaths == {"b.py", "a.py"}

FormatLines == {None, <<1>>}

FormatHunks == {"", "@@ -1 +1 @@", "@@ -1 +1 @@\n ctx\n+new"}

TitleArgs == {NoneStr, "", "Add x"}

UrlArgs == {NoneStr, "https://github.com/o/r/pull/1"}

\* snippet_lines: the default, and one line when snippets are asked for
SnippetLineArgs(include_snippet) ==
    IF include_snippet THEN {1, DEFAULT_SNIPPET_LINES} ELSE {DEFAULT_SNIPPET_LINES}

RECURSIVE Repeat(_, _)
\* c * n, by halves
Repeat(c, n) ==
    IF n <= 0 THEN ""
    ELSE IF n = 1 THEN c
    ELSE LET half == Repeat(c, n \div 2)
         IN  half \o half \o (IF n % 2 = 1 THEN c ELSE "")

\* the body of the i-th record begins with "c<i> ", which tells records apart
Tag(i) == "c" \o ToString(i) \o " "

BodyKinds == {"short", "lines", "full", "newline_last", "newline_after"}

\* bodies around the preview length, with and without newlines
Body(i, kind) ==
    CASE kind = "short" -> Tag(i) \o "ok"
      [] kind = "lines" -> Tag(i) \o "two\nlines"
      [] kind = "full"  -> Tag(i) \o Repeat("x", PREVIEW_LENGTH - Len(Tag(i)))
      [] kind = "newline_last" ->
             Tag(i) \o Repeat("x", PREVIEW_LENGTH - Len(Tag(i)) - 1) \o "\ny"
      [] kind = "newline_after" ->
             Tag(i) \o Repeat("x", PREVIEW_LENGTH - Len(Tag(i))) \o "\ny"

FormatComment(i, f, ln, u, h, b) ==
    [id |-> i, file_path |-> f, line_number |-> ln, start_line |-> None,
     author |-> "alice", body |-> b, created_at |-> 1769767200, updated_at |-> u,
     diff_hunk |-> h, html_url |-> ""]

\* records that differ in file, line and date
OrderSeqs ==
    UNION { { [i \in 1..m |-> FormatComment(i, s[i][1], s[i][2], s[i][3],
                                            "@@ -1 +1 @@\n ctx\n+new", Tag(i) \o "ok")] :
                s \in [1..m -> FormatPaths \X FormatLines \X Instants] } : m \in 0..MaxRendered }

\* records that differ in diff hunk and body
BlockSeqs ==
    UNION { { [i \in 1..m |-> FormatComment(i, "a.py", <<i>>, 1769767200,
                                            s[i][1], Body(i, s[i][2]))] :
                s \in [1..m -> FormatHunks \X BodyKinds] } : m \in 0..MaxBlocks }

InitFormat ==
    /\ pc = "start"
    /\ comment_data = EmptyDict
    /\ comments_data = <<>>
    /\ comments \in OrderSeqs
    /\ author = NoneStr
    /\ self = NoComment
    /\ options = NoOptions
    /\ result = NoResult
    /\ NoWorld

InitBlocks ==
    /\ pc = "start"
    /\ comment_data = EmptyDict
    /\ comments_data = <<>>
    /\ comments \in BlockSeqs
    /\ author = NoneStr
    /\ self = NoComment
    /\ options = NoOptions
    /\ result = NoResult
    /\ NoWorld

FormatCommentForLlm ==
    /\ pc = "start"
    /\ comments # <<>>
    /\ \E inc \in BOOLEAN : \E n \in SnippetLineArgs(inc) :
         /\ options' = [include_snippet |-> inc, snippet_lines |-> n]
         /\ result' = format_comment_for_llm(comments[1], inc, n)
    /\ pc' = "format_comment_for_llm"
    /\ UNCHANGED <<world, comment_data, comments_data, comments, author, self>>

FormatCommentsGrouped ==
    /\ pc = "start"
    /\ \E inc \in BOOLEAN : \E n \in SnippetLineArgs(inc) :
         /\ options' = [include_snippet |-> inc, snippet_lines |-> n]
         /\ result' = format_comments_grouped(comments, inc, n)
    /\ pc' = "format_comments_grouped"
    /\ comments' = argument_after_sort(comments)
    /\ UNCHANGED <<world, comment_data, comments_data, author, self>>

FormatCommentsFlat ==
    /\ pc = "start"
    /\ \E inc \in BOOLEAN : \E n \in SnippetLineArgs(inc) :
         /\ options' = [include_snippet |-> inc, snippet_lines |-> n]
         /\ result' = format_comments_flat(comments, inc, n)
    /\ pc' = "format_comments_flat"
    /\ UNCHANGED <<world, comment_data, comments_data, comments, author, self>>

FormatCommentsMinimal ==
    /\ pc = "start"
    /\ options' = EmptyDict
    /\ result' = format_comments_minimal(comments)
    /\ pc' = "format_comments_minimal"
    /\ UNCHANGED <<world, comment_data, comments_data, comments, author, self>>

FormatForClaude ==
    /\ pc = "start"
    /\ \E inc \in BOOLEAN, url \in UrlArgs, title \in TitleArgs :
         /\ options' = [include_snippet |-> inc, snippet_lines |-> CLAUDE_SNIPPET_LINES,
                        pr_url |-> url, pr_title |-> title]
         /\ result' = format_for_claude(comments, url, title, inc, CLAUDE_SNIPPET_LINES)
    /\ pc' = "format_for_claude"
    /\ comments' = argument_after_sort(comments)
    /\ UNCHANGED <<world, comment_data, comments_data, author, self>>

NextFormat ==
    \/ FormatCommentForLlm
    \/ FormatCommentsGrouped
    \/ FormatCommentsFlat
    \/ FormatCommentsMinimal
    \/ FormatForClaude

SpecFormat == InitFormat /\ [][NextFormat]_vars

SpecBlocks == InitBlocks /\ [][NextFormat]_vars

----------------------------------------------------------------------------
(* one list of records passed to one call after another *)

MaxArgument == 2

ArgumentSeqs ==
    UNION { { [i \in 1..m |-> FormatComment(i, s[i][1], s[i][2], s[i][3],
                                            "@@ -1 +1 @@\n ctx\n+new", Tag(i) \o "ok")] :
                s \in [1..m -> FormatPaths \X FormatLines \X Instants] } : m \in 0..MaxArgument }

InitCalls ==
    /\ pc = "start"
    /\ comment_data = EmptyDict
    /\ comments_data = <<>>
    /\ comments \in ArgumentSeqs
    /\ author = NoneStr
    /\ self = NoComment
    /\ options = NoOptions
    /\ result = NoResult
    /\ NoWorld

\* the call has returned; the caller still holds the list it passed
NextCall ==
    /\ pc # "start"
    /\ pc' = "start"
    /\ author' = NoneStr
    /\ options' = NoOptions
    /\ result' = NoResult
    /\ UNCHANGED <<world, comment_data, comments_data, comments, self>>

SpecCalls == InitCalls /\ [][NextPipe \/ NextFormat \/ NextCall]_vars

----------------------------------------------------------------------------
(* the command: main applied to parsed arguments, gh answering as github says *)

MaxFetched == 2

\* a process that exits with 0 and prints the JSON text of value
Answered(value) == [returncode |-> 0, stderr |-> "", loads |-> Return(value)]

\* a process that exits with 1
EXIT_1 ==
    [returncode |-> 1, stderr |-> "gh: Bad credentials (HTTP 401)",
     loads |-> RaiseWith("JSONDecodeError", "Expecting value: line 1 column 1 (char 0)")]

\* a process that exits with 0 and prints what is not JSON
NOT_JSON ==
    [returncode |-> 0, stderr |-> "",
     loads |-> RaiseWith("JSONDecodeError", "Expecting value: line 1 column 1 (char 0)")]

\* the pull request the answers are about
OWNER == "o"

REPO == "r"

PR_NUMBER == 12

Iso(u) == CHOOSE s \in DOMAIN IsoTable : IsoTable[s] = u

DISCUSSION == "https://github.com/o/r/pull/12#discussion_r"

\* a raw review comment as the API gives it
FetchedComment(i, f, a, u) ==
    ("id" :> i) @@ ("path" :> f) @@ ("line" :> <<i>>) @@ ("user" :> <<"login" :> a>>)
      @@ ("body" :> Tag(i) \o "ok") @@ ("created_at" :> Iso(1769767200))
      @@ ("updated_at" :> Iso(u)) @@ ("diff_hunk" :> "@@ -1 +1 @@\n ctx\n+new")
      @@ ("html_url" :> DISCUSSION \o ToString(i))

\* a raw comment on a file as a whole: no line, no diff hunk, and a body that
\* holds a quote, a backslash and a newline
BareComment(i) ==
    ("id" :> i) @@ ("path" :> "a.py") @@ ("user" :> <<"login" :> "alice">>)
      @@ ("body" :> Tag(i) \o "say \"a\\b\"\nok") @@ ("created_at" :> Iso(1769767200))
      @@ ("updated_at" :> Iso(1769767200)) @@ ("html_url" :> DISCUSSION \o ToString(i))

\* a raw comment one of whose timestamps is not a timestamp
MalformedComment(i, key) ==
    (key :> "not-a-date") @@ FetchedComment(i, "a.py", "alice", 1769767200)

FetchedKinds ==
    (FilePaths \X {"alice", "bob"} \X Instants)
        \cup {<<"bare">>, <<"created_at">>, <<"updated_at">>}

Fetched(i, kind) ==
    IF Len(kind) = 3 THEN FetchedComment(i, kind[1], kind[2], kind[3])
    ELSE IF kind[1] = "bare" THEN BareComment(i)
    ELSE MalformedComment(i, kind[1])

FetchedSeqs ==
    UNION { { [i \in 1..m |-> Fetched(i, s[i])] : s \in [1..m -> FetchedKinds] } :
              m \in 0..MaxFetched }

PR_INFO == ("title" :> "Add x") @@ ("html_url" :> "https://github.com/o/r/pull/12")

\* GitHub as gh shows it: the answers for the two endpoints of the pull request
GitHub(comments_answer, info_answer) ==
    (comments_endpoint(OWNER, REPO, PR_NUMBER) :> comments_answer)
      @@ (info_endpoint(OWNER, REPO, PR_NUMBER) :> info_answer)

\* what argparse makes of a command line
Namespace(pr, explicit, a, recent, fmt, no_snippet, n, out) ==
    [pr |-> pr, owner |-> explicit[1], repo |-> explicit[2], pr_number |-> explicit[3],
     author |-> a, most_recent |-> recent, format |-> fmt, no_snippet |-> no_snippet,
     snippet_lines |-> n, output |-> out]

NoExplicit == <<NoneStr, NoneStr, None>>

OutputArgs == {NoneStr, "out.md"}

\* locators of the three documented shapes, with the triple each one names
WellFormedLocators ==
    { <<GITHUB \o OWNER \o "/" \o REPO \o "/pull/" \o ToString(PR_NUMBER),
        <<OWNER, REPO, PR_NUMBER>> >>,
      <<GITHUB \o OWNER \o "/" \o REPO \o "/pull/" \o ToString(PR_NUMBER) \o "/",
        <<OWNER, REPO, PR_NUMBER>> >>,
      <<OWNER \o "/" \o REPO \o "#" \o ToString(PR_NUMBER), <<OWNER, REPO, PR_NUMBER>> >>,
      <<"o/r#7", <<"o", "r", 7>> >>,
      <<"https://github.com/p/r/pull/12", <<"p", "r", 12>> >> }

\* locators of no documented shape
MalformedLocators ==
    { "not-a-url", "https://github.com/o/r/issues/12", "https://github.com/o/r/pull/x",
      "https://github.com/o/r/pull", "https://github.com/o/r#12",
      "o/r#x", "o/r#", "o#12", "o/r/s#12", "o/r#1#2", "#12", "/" }

\* locators of a documented shape with more or less in it: a path after the
\* number, an owner of no character
LooseLocators == { "https://github.com/o/r/pull/12/files", "/r#12" }

\* --owner, --repo and --pr-number given, in part, or with the number 0
ExplicitArgs ==
    { <<OWNER, REPO, <<PR_NUMBER>> >>, <<OWNER, REPO, <<0>> >>, <<OWNER, NoneStr, <<PR_NUMBER>> >>,
      NoExplicit }

\* the command lines that differ in how they name the pull request
LocatorCommands ==
    { Namespace(pr, NoExplicit, NoneStr, FALSE, fmt, FALSE, CLAUDE_SNIPPET_LINES, out) :
        pr \in { l[1] : l \in WellFormedLocators } \cup MalformedLocators \cup LooseLocators,
        fmt \in {"claude", "grouped", "flat", "minimal", "json"}, out \in OutputArgs }
    \cup
    { Namespace(pr, explicit, NoneStr, FALSE, fmt, FALSE, CLAUDE_SNIPPET_LINES, out) :
        pr \in {NoneStr, ""}, explicit \in ExplicitArgs,
        fmt \in {"claude", "grouped", "flat", "minimal", "json"}, out \in OutputArgs }

CommentsAnswers ==
    { Answered(<<>>), Answered(<<FetchedComment(1, "a.py", "alice", 1769767200)>>),
      EXIT_1, NOT_JSON }

InfoAnswers == { Answered(PR_INFO), Answered(EmptyDict), EXIT_1, NOT_JSON }

InitLocate ==
    /\ pc = "start"
    /\ comment_data = EmptyDict
    /\ comments_data = <<>>
    /\ comments = <<>>
    /\ author = NoneStr
    /\ self = NoComment
    /\ options \in LocatorCommands
    /\ result = NoResult
    /\ \E c \in CommentsAnswers, i \in InfoAnswers : github = GitHub(c, i)
    /\ calls = <<>>
    /\ stdout = <<>>
    /\ stderr = <<>>
    /\ written = EmptyDict

\* the command lines that differ in filters and form, for one pull request
FilterCommands ==
    { Namespace("o/r#12", NoExplicit, a, recent, fmt, no_snippet, n, out) :
        a \in {NoneStr, "alice"}, recent \in BOOLEAN, fmt \in {"json", "claude"},
        no_snippet \in BOOLEAN, n \in {1, CLAUDE_SNIPPET_LINES}, out \in OutputArgs }

InitRun ==
    /\ pc = "start"
    /\ comment_data = EmptyDict
    /\ comments_data = <<>>
    /\ comments = <<>>
    /\ author = NoneStr
    /\ self = NoComment
    /\ options \in FilterCommands
    /\ result = NoResult
    /\ \E raw \in FetchedSeqs : github = GitHub(Answered(raw), Answered(PR_INFO))
    /\ calls = <<>>
    /\ stdout = <<>>
    /\ stderr = <<>>
    /\ written = EmptyDict

\* main ends: what it returns or raises, the fetches it made, what it printed
\* to each stream, the files it wrote and the records it rendered
Ends(res, cl, out, err, wr, cs) ==
    /\ result' = res
    /\ calls' = cl
    /\ stdout' = out
    /\ stderr' = err
    /\ written' = wr
    /\ comments' = cs

\* main(args), options being what argparse made of args and gh answering as
\* github says
Main ==
    /\ pc = "start"
    /\ pc' = "main"
    /\ \E resolved \in {resolve(options)} :
         IF resolved.raised = "usage"
         THEN Ends(Return(1), <<>>, <<USAGE>>,
                   <<"\nError: Provide a PR URL or --owner, --repo, and --pr-number">>,
                   EmptyDict, <<>>)
         ELSE IF resolved.raised = "ValueError"
         THEN Ends(Return(1), <<>>, <<>>, <<"Error: " \o resolved.message>>, EmptyDict, <<>>)
         ELSE
         \E fetched \in {fetch_comments(github, resolved.value[1], resolved.value[2],
                                         resolved.value[3])} :
           IF fetched.outcome.raised = "GitHubAPIError"
           THEN Ends(Return(1), fetched.calls, <<>>,
                     <<"Error: " \o fetched.outcome.message>>, EmptyDict, <<>>)
           ELSE
           \* what parse_comments raises leaves main
           \E parsed_comments \in {parse_comments(fetched.outcome.value.raw_comments)} :
             IF parsed_comments.raised # ""
             THEN Ends(Raise(parsed_comments.raised), fetched.calls, <<>>, <<>>,
                       EmptyDict, <<>>)
             ELSE
             \E cs \in {apply_filters(parsed_comments.value, options)} :
               \E output \in {format_output(cs, fetched.outcome.value.pr_info, options)} :
                 IF TruthyStr(options.output)
                 THEN Ends(Return(0), fetched.calls, <<>>,
                           <<"Output written to " \o options.output>>,
                           (options.output :> output), cs)
                 ELSE Ends(Return(0), fetched.calls, <<output>>, <<>>, EmptyDict, cs)
    /\ UNCHANGED <<github, comment_data, comments_data, author, self, options>>

SpecLocate == InitLocate /\ [][Main]_vars

SpecRun == InitRun /\ [][Main]_vars

----------------------------------------------------------------------------
(* Properties of parse_comment *)

Present(cd, key) == key \in DOMAIN cd

\* the value the documented fallback rule gives: the first key if it is
\* present and non-null, else the value of the second key, else absent
Fallback(cd, first, second) ==
    IF Present(cd, first) /\ cd[first] # None THEN cd[first]
    ELSE IF Present(cd, second) THEN cd[second]
    ELSE None

Parsed == pc = "parse_comment" /\ result.raised = ""

\* C1: line_number is the raw `line` whenever it is present and non-null,
\* whatever integer it is, else the raw `original_line`, else absent; and
\* start_line likewise from `start_line` and `original_start_line`.
C1_LineFallback ==
    Parsed =>
        /\ result.value.line_number = Fallback(comment_data, "line", "original_line")
        /\ result.value.start_line
             = Fallback(comment_data, "start_line", "original_start_line")

\* the causes of a raise in parse_comment: a null principal, or a timestamp
\* that is present and null or not ISO-8601
NullUser(cd) == Present(cd, "user") /\ cd["user"] = None

BadTimestamp(cd, key) == Present(cd, key) /\ cd[key] \notin DOMAIN IsoTable

DefaultWhenMissing(cd, key, got, default) == ~Present(cd, key) => got = default

\* C2: parse_comment never fails because an optional key is missing: a raise
\* is always due to a key that is present (a null principal, a null or
\* malformed timestamp), and every missing key yields its documented default.
C2_MissingNeverFails ==
    pc = "parse_comment" =>
        /\ result.raised # "" =>
              \/ NullUser(comment_data)
              \/ BadTimestamp(comment_data, "created_at")
              \/ BadTimestamp(comment_data, "updated_at")
        /\ result.raised = "" =>
              LET c == result.value
                  cd == comment_data
              IN  /\ DefaultWhenMissing(cd, "id", c.id, 0)
                  /\ DefaultWhenMissing(cd, "path", c.file_path, "unknown")
                  /\ DefaultWhenMissing(cd, "user", c.author, "unknown")
                  /\ (Present(cd, "user") /\ ~Present(cd["user"][1], "login"))
                        => c.author = "unknown"
                  /\ DefaultWhenMissing(cd, "body", c.body, "")
                  /\ DefaultWhenMissing(cd, "created_at", c.created_at, 0)
                  /\ DefaultWhenMissing(cd, "updated_at", c.updated_at, 0)
                  /\ DefaultWhenMissing(cd, "diff_hunk", c.diff_hunk, "")
                  /\ DefaultWhenMissing(cd, "html_url", c.html_url, "")
                  /\ (~Present(cd, "line") /\ ~Present(cd, "original_line"))
                        => c.line_number = None
                  /\ (~Present(cd, "start_line") /\ ~Present(cd, "original_start_line"))
                        => c.start_line = None
        /\ (\A key \in {"user", "created_at", "updated_at"} : ~Present(comment_data, key))
              => result.raised = ""

\* the record with no key at all has been parsed into the all-default record
C2_Witness ==
    /\ Parsed
    /\ DOMAIN comment_data = {}
    /\ result.value.id = 0
    /\ result.value.file_path = "unknown"
    /\ result.value.author = "unknown"
    /\ result.value.updated_at = 0

\* C3: in every record parse_comment produces, file_path, author, body,
\* diff_hunk and html_url are strings, never None.
C3_StringsNeverNone ==
    Parsed =>
        /\ result.value.file_path # NoneStr
        /\ result.value.author # NoneStr
        /\ result.value.body # NoneStr
        /\ result.value.diff_hunk # NoneStr
        /\ result.value.html_url # NoneStr
----------------------------------------------------------------------------
(* Properties of parse_comments *)

Raises(cd) == parse_comment(cd).raised # ""

\* C4: parse_comments returns a sequence as long as its input whose i-th
\* element is parse_comment of the i-th raw record, and the empty sequence
\* for the empty input (a record that raises makes the whole call raise).
C4_ParseManyMaps ==
    pc = "parse_comments" =>
        IF \E i \in 1..Len(comments_data) : Raises(comments_data[i])
        THEN result.raised # ""
        ELSE /\ result.raised = ""
             /\ Len(result.value) = Len(comments_data)
             /\ \A i \in 1..Len(comments_data) :
                   result.value[i] = parse_comment(comments_data[i]).value
             /\ comments_data = <<>> => result.value = <<>>

\* three raw records, the first two different, have been parsed in order
C4_Witness ==
    /\ pc = "parse_comments"
    /\ result.raised = ""
    /\ Len(comments_data) = 3
    /\ Len(result.value) = 3
    /\ result.value[1] # result.value[2]
    /\ result.value[1].id = 1
    /\ result.value[2].id = 2
----------------------------------------------------------------------------
(* Properties of the pipeline stages.  In every input of SpecPipe the id of *)
(* a record is its position in the input.                                   *)

Positions == 1..Len(comments)

FilesOf(cs) == { cs[i].file_path : i \in 1..Len(cs) }

PositionsOfFile(f) == { i \in Positions : comments[i].file_path = f }

Max(S) == CHOOSE x \in S : \A y \in S : y <= x

Min(S) == CHOOSE x \in S : \A y \in S : x <= y

Greatest(f) == Max({ comments[i].updated_at : i \in PositionsOfFile(f) })

\* the positions of the records of file f that share the greatest updated_at
Tied(f) == { i \in PositionsOfFile(f) : comments[i].updated_at = Greatest(f) }

\* s holds records of the input, in strictly increasing input position
IsSubsequence(s) ==
    /\ \A k \in 1..Len(s) : s[k].id \in Positions /\ s[k] = comments[s[k].id]
    /\ \A k \in 1..(Len(s) - 1) : s[k].id < s[k + 1].id

\* C5: get_most_recent_per_file returns exactly one record per distinct
\* file_path of the input, every returned record is a record of the input,
\* and its updated_at is >= that of every input record of the same file.
C5_OnePerFileGreatest ==
    pc = "get_most_recent_per_file" =>
        /\ \A f \in FilesOf(comments) :
              Cardinality({ k \in 1..Len(result) : result[k].file_path = f }) = 1
        /\ \A k \in 1..Len(result) :
              /\ \E i \in Positions : comments[i] = result[k]
              /\ \A i \in PositionsOfFile(result[k].file_path) :
                    result[k].updated_at >= comments[i].updated_at

\* two files, one of them with an older and a newer record: the newer is kept
C5_Witness ==
    /\ pc = "get_most_recent_per_file"
    /\ Len(comments) = 3
    /\ Len(result) = 2
    /\ \E i, j \in Positions :
          /\ i < j
          /\ comments[i].file_path = comments[j].file_path
          /\ comments[i].updated_at < comments[j].updated_at
          /\ \E k \in 1..Len(result) : result[k] = comments[j]

\* C6 as stated: when several records of one file share the greatest
\* updated_at, the one encountered later in the input is kept.
C6_TiesKeepLater ==
    pc = "get_most_recent_per_file" =>
        \A k \in 1..Len(result) : result[k].id = Max(Tied(result[k].file_path))

\* C6: when several records of one file share the greatest updated_at, the
\* one encountered first in the input is kept.
C6_TiesKeepEarliest ==
    pc = "get_most_recent_per_file" =>
        \A k \in 1..Len(result) : result[k].id = Min(Tied(result[k].file_path))

\* two records of one file share the greatest updated_at; the first is kept
C6_Witness ==
    /\ pc = "get_most_recent_per_file"
    /\ \E f \in FilesOf(comments) :
          /\ Cardinality(Tied(f)) >= 2
          /\ \E k \in 1..Len(result) : result[k] = comments[Min(Tied(f))]

\* C7: with a non-empty author, filter_by_author returns exactly the input
\* records whose author equals it (case-sensitive), in input order; an
\* author matching no record yields the empty sequence.
C7_FilterExact ==
    (pc = "filter_by_author" /\ author # NoneStr /\ author # "") =>
        LET matching == { i \in Positions : comments[i].author = author }
        IN  /\ IsSubsequence(result)
            /\ { result[k].id : k \in 1..Len(result) } = matching
            /\ Len(result) = Cardinality(matching)
            /\ matching = {} => result = <<>>

\* "alice" was asked for; an "Alice" record was dropped, "alice" records kept
C7_Witness ==
    /\ pc = "filter_by_author"
    /\ author = "alice"
    /\ \E i \in Positions : comments[i].author = "Alice"
    /\ Len(result) = 2
    /\ Len(comments) = 3

\* C8: with author None or "", filter_by_author returns every input record
\* in input order.
C8_FilterIdentity ==
    (pc = "filter_by_author" /\ author \in {NoneStr, ""}) => result = comments

\* the empty-string author was given for records of two different authors
C8_Witness ==
    /\ pc = "filter_by_author"
    /\ author = ""
    /\ Len(comments) = 3
    /\ \E i, j \in Positions : comments[i].author # comments[j].author
    /\ Len(result) = 3

\* C26: get_most_recent_per_file replaces the record it keeps for a file
\* only on a strictly greater updated_at: every record of the file before
\* the kept one is strictly older, and no record after it is more recent.
C26_StrictReplacement ==
    pc = "get_most_recent_per_file" =>
        \A k \in 1..Len(result) :
            LET kept == result[k]
            IN  /\ kept = comments[kept.id]
                /\ \A i \in PositionsOfFile(kept.file_path) :
                      /\ i < kept.id => comments[i].updated_at < kept.updated_at
                      /\ i > kept.id => comments[i].updated_at <= kept.updated_at

\* one file, updated early, late, late: the second replaced the first and
\* was not replaced by the third
C26_Witness ==
    /\ pc = "get_most_recent_per_file"
    /\ Len(comments) = 3
    /\ Cardinality(FilesOf(comments)) = 1
    /\ comments[1].updated_at < comments[2].updated_at
    /\ comments[2].updated_at = comments[3].updated_at
    /\ result = <<comments[2]>>

\* C27: the records get_most_recent_per_file returns are in the order in
\* which their file paths first occur in the input, one per file, also when
\* the record kept for a file is not the first-seen one.
C27_FirstSeenOrder ==
    pc = "get_most_recent_per_file" =>
        /\ Len(result) = Cardinality(FilesOf(comments))
        /\ \A a, b \in 1..Len(result) :
              a < b => Min(PositionsOfFile(result[a].file_path))
                          < Min(PositionsOfFile(result[b].file_path))

\* b.py, a.py, b.py with the last the most recent: b.py stays first though
\* its record is the third, so the order follows neither path nor date
C27_Witness ==
    /\ pc = "get_most_recent_per_file"
    /\ Len(comments) = 3
    /\ comments[1].file_path = "b.py"
    /\ comments[2].file_path = "a.py"
    /\ comments[3].file_path = "b.py"
    /\ comments[3].updated_at > comments[1].updated_at
    /\ comments[2].updated_at < comments[3].updated_at
    /\ result = <<comments[3], comments[2]>>

RECURSIVE SumLen(_, _)
SumLen(d, k) == IF k = 0 THEN 0 ELSE Len(d.map[d.keys[k]]) + SumLen(d, k - 1)

\* C9: group_by_file maps each distinct file_path to exactly the input
\* records of that file in input order, the group sizes sum to the input
\* length, the keys are in first-seen order, and the empty input gives the
\* empty mapping.
C9_GroupByFile ==
    pc = "group_by_file" =>
        /\ DOMAIN result.map = FilesOf(comments)
        /\ Len(result.keys) = Cardinality(FilesOf(comments))
        /\ { result.keys[k] : k \in 1..Len(result.keys) } = FilesOf(comments)
        /\ \A f \in FilesOf(comments) :
              /\ IsSubsequence(result.map[f])
              /\ { result.map[f][k].id : k \in 1..Len(result.map[f]) } = PositionsOfFile(f)
        /\ SumLen(result, Len(result.keys)) = Len(comments)
        /\ \A a, b \in 1..Len(result.keys) :
              a < b => Min(PositionsOfFile(result.keys[a])) < Min(PositionsOfFile(result.keys[b]))
        /\ comments = <<>> => result = EmptyOrderedDict

\* b.py, a.py, b.py: the keys are b.py then a.py, and b.py has two records
C9_Witness ==
    /\ pc = "group_by_file"
    /\ Len(comments) = 3
    /\ comments[1].file_path = "b.py"
    /\ comments[2].file_path = "a.py"
    /\ comments[3].file_path = "b.py"
    /\ result.keys = <<"b.py", "a.py">>
    /\ Len(result.map["b.py"]) = 2

----------------------------------------------------------------------------
(* Properties of get_line_info *)

\* C10: get_line_info is "lines {start}-{end}" when start_line and
\* line_number are present and differ, "line {n}" when line_number is
\* present and start_line is absent or equal to it, and "line unknown"
\* when line_number is absent, for every integer value.
C10_LineInfo ==
    pc = "get_line_info" =>
        LET s == self.start_line
            n == self.line_number
        IN  /\ (s # None /\ n # None /\ s # n)
                  => result = "lines " \o ToString(s[1]) \o "-" \o ToString(n[1])
            /\ (n # None /\ (s = None \/ s = n)) => result = "line " \o ToString(n[1])
            /\ n = None => result = "line unknown"
----------------------------------------------------------------------------
(* Properties of get_code_snippet *)

\* the lines of the hunk of self that do not begin with "@@", in order
ContentLines == SelectSeq(Split(self.diff_hunk), LAMBDA l : SubSeq(l \o "  ", 1, 2) # "@@")

\* C11: for a non-empty diff_hunk and a positive max_lines, the snippet is
\* all the lines left after header removal when they are at most max_lines,
\* and otherwise exactly the last max_lines of them, in order.
C11_SnippetLastLines ==
    (pc = "get_code_snippet" /\ self.diff_hunk # "" /\ options.max_lines > 0) =>
        LET n == Len(ContentLines)
            m == options.max_lines
        IN  IF n <= m
            THEN result = Join(ContentLines)
            ELSE /\ result = Join([k \in 1..m |-> ContentLines[n - m + k]])
                 /\ Len(Split(result)) = m

\* a header and three different content lines, max_lines 2: the last two
C11_Witness ==
    /\ pc = "get_code_snippet"
    /\ options.max_lines = 2
    /\ Len(ContentLines) = 3
    /\ ContentLines[1] # ContentLines[3]
    /\ result = ContentLines[2] \o "\n" \o ContentLines[3]

\* C12: the snippet drops every line of diff_hunk that begins with "@@",
\* wherever it is, and keeps every other line: no line of the snippet begins
\* with "@@", and an empty diff_hunk gives the empty snippet.
C12_NoHeaderLines ==
    pc = "get_code_snippet" =>
        /\ \A k \in 1..Len(Split(result)) : ~StartsWith(Split(result)[k], "@@")
        /\ self.diff_hunk = "" => result = ""
        /\ Len(ContentLines) <= options.max_lines => result = Join(ContentLines)

\* a hunk with a header in the middle: it is dropped, the other lines kept
C12_Witness ==
    /\ pc = "get_code_snippet"
    /\ options.max_lines = 3
    /\ Len(Split(self.diff_hunk)) = 3
    /\ StartsWith(Split(self.diff_hunk)[2], "@@")
    /\ Len(ContentLines) = 2
    /\ result = ContentLines[1] \o "\n" \o ContentLines[2]

\* the number of lines of a snippet, the empty snippet having none
SnippetLineCount(snippet) == IF snippet = "" THEN 0 ELSE Len(Split(snippet))

\* C28: for every diff_hunk and every max_lines >= 0, get_code_snippet
\* returns at most max_lines lines; max_lines = 0 gives the empty snippet.
C28_AtMostMaxLines ==
    (pc = "get_code_snippet" /\ options.max_lines >= 0) =>
        /\ SnippetLineCount(result) <= options.max_lines
        /\ options.max_lines = 0 => result = ""

----------------------------------------------------------------------------
(* Properties of the renderers.  In SpecFormat the body of the i-th input  *)
(* record is the one line "c<i> ok", so the line of the output that ends   *)
(* with it tells where record i was rendered.                               *)

EndsWith(s, p) == Len(s) >= Len(p) /\ SubSeq(s, Len(s) - Len(p) + 1, Len(s)) = p

\* the lines of the output, as a tuple
Rendered == Split(result) \o <<>>

\* the output lines that carry the body of record i
BodyLines(L, i) == { k \in 1..Len(L) : EndsWith(L[k], comments[i].body) }

\* the output line of record i, when there is exactly one
Where(L, i) == CHOOSE k \in BodyLines(L, i) : TRUE

\* the output line of each record
Places(L) == [i \in 1..Len(comments) |-> Where(L, i)] \o <<>>

\* the lines of the output that begin with a prefix, in order
LinesWith(L, prefix) == SelectSeq(L, LAMBDA l : StartsWith(l, prefix))

Grouping == {"format_comments_grouped", "format_comments_minimal", "format_for_claude"}

SectionPrefix ==
    CASE pc = "format_comments_grouped" -> "## "
      [] pc = "format_comments_minimal" -> PAGE \o " "
      [] pc = "format_for_claude"       -> "## File: "

SectionHead(f) ==
    CASE pc = "format_comments_grouped" -> "## " \o f
      [] pc = "format_comments_minimal" -> PAGE \o " " \o f
      [] pc = "format_for_claude"       -> "## File: " \o BACKQUOTE \o f \o BACKQUOTE

\* C14: in the grouped, minimal and Claude renderings of a non-empty input
\* the section headings are those of the distinct file paths of the input,
\* one each, in strictly ascending order of the path.
C14_SectionsSortedByPath ==
    (pc \in Grouping /\ comments # <<>>) =>
        LET L     == Rendered
            heads == LinesWith(L, SectionPrefix)
            files == FilesOf(comments)
        IN  /\ Len(heads) = Cardinality(files)
            /\ \A f \in files : \E k \in 1..Len(heads) : heads[k] = SectionHead(f)
            /\ \A k1, k2 \in 1..Len(heads) :
                 k1 < k2 => \E f1, f2 \in files : /\ heads[k1] = SectionHead(f1)
                                                  /\ heads[k2] = SectionHead(f2)
                                                  /\ StrLess(f1, f2)

\* the input names b.py before a.py, the output a.py before b.py
C14_Witness ==
    /\ pc = "format_comments_minimal"
    /\ Len(comments) = 2
    /\ comments[1].file_path = "b.py"
    /\ comments[2].file_path = "a.py"
    /\ LinesWith(Rendered, SectionPrefix) = <<SectionHead("a.py"), SectionHead("b.py")>>

LineOrZero(c) == IF c.line_number = None THEN 0 ELSE c.line_number[1]

\* C15: within a file section of the grouped and Claude renderings the
\* comments are in ascending order of (line_number or 0, updated_at); within
\* a file section of the minimal rendering they are in non-decreasing order
\* of line_number or 0.
C15_SortedWithinFile ==
    (pc \in Grouping /\ comments # <<>>) =>
        LET L  == Rendered
            n  == Len(comments)
            at == Places(L)
        IN  /\ \A i \in 1..n : Cardinality(BodyLines(L, i)) = 1
            /\ \A i, j \in 1..n :
                 (comments[i].file_path = comments[j].file_path /\ at[i] < at[j]) =>
                     /\ LineOrZero(comments[i]) <= LineOrZero(comments[j])
                     /\ (pc # "format_comments_minimal"
                           /\ LineOrZero(comments[i]) = LineOrZero(comments[j])) =>
                            comments[i].updated_at <= comments[j].updated_at

\* a later comment without a line number is rendered before an earlier
\* comment on line 1 of the same file
C15_Witness ==
    /\ pc = "format_comments_grouped"
    /\ Len(comments) = 2
    /\ comments[1].file_path = comments[2].file_path
    /\ comments[1].line_number = <<1>>
    /\ comments[2].line_number = None
    /\ comments[2].updated_at > comments[1].updated_at
    /\ LET L == Rendered IN Where(L, 2) < Where(L, 1)

\* C16: for a non-empty input the grouped header gives the number of records
\* and the number of distinct file paths, and the count under each file
\* heading is the number of records of that file (so the counts sum to the
\* total); minimal and Claude give the same two numbers.
C16_Counts ==
    (pc \in Grouping /\ comments # <<>>) =>
        LET L     == Rendered
            total == ToString(Len(comments))
            files == ToString(Cardinality(FilesOf(comments)))
        IN  CASE pc = "format_comments_grouped" ->
                   /\ LinesWith(L, "Total comments: ") = <<"Total comments: " \o total>>
                   /\ LinesWith(L, "Files with comments: ") = <<"Files with comments: " \o files>>
                   /\ Len(LinesWith(L, "(")) = Cardinality(FilesOf(comments))
                   /\ \A f \in FilesOf(comments) :
                        \E k \in 1..(Len(L) - 1) :
                           /\ L[k] = "## " \o f
                           /\ L[k + 1] = "(" \o ToString(Cardinality(PositionsOfFile(f)))
                                             \o " comment(s))"
              [] pc = "format_comments_minimal" ->
                   L[1] = "PR Comments: " \o total \o " total across " \o files \o " files"
              [] pc = "format_for_claude" ->
                   /\ LinesWith(L, "**Total Comments:** ") = <<"**Total Comments:** " \o total>>
                   /\ LinesWith(L, "**Files Affected:** ") = <<"**Files Affected:** " \o files>>

\* three records in two files
C16_Witness ==
    /\ pc = "format_comments_grouped"
    /\ Len(comments) = 3
    /\ Cardinality(FilesOf(comments)) = 2
    /\ LET L == Rendered
       IN  /\ L[2] = "Total comments: 3"
           /\ L[3] = "Files with comments: 2"
           /\ Len(LinesWith(L, "(2 comment(s))")) = 1
           /\ Len(LinesWith(L, "(1 comment(s))")) = 1

\* C17: on an empty sequence format_comments_grouped, format_comments_flat
\* and format_comments_minimal return "No comments found." and
\* format_for_claude returns "No review comments found on this PR.",
\* whatever the options.
C17_EmptyInput ==
    (pc # "start" /\ comments = <<>>) =>
        IF pc = "format_for_claude" THEN result = "No review comments found on this PR."
        ELSE result = "No comments found."

\* the Claude rendering of no comments with a title, a URL and snippets asked
C17_Witness ==
    /\ pc = "format_for_claude"
    /\ comments = <<>>
    /\ options.include_snippet
    /\ options.pr_title = "Add x"
    /\ options.pr_url # NoneStr
    /\ result = "No review comments found on this PR."

\* a title or URL is provided when it is neither None nor empty
Provided(s) == s # NoneStr /\ s # ""

\* the position of the first line equal to l, 0 when there is none
IndexOf(L, l) == IF \E k \in 1..Len(L) : L[k] = l
                 THEN Min({ k \in 1..Len(L) : L[k] = l }) ELSE 0

\* C20: for a non-empty input format_for_claude writes the header first, a
\* PR-title line exactly when a title is provided, a PR-URL line exactly when
\* a URL is provided, the two counts, the preamble, and after every file
\* section the footer with its three numbered considerations, which ends
\* the output.
C20_ClaudeFrame ==
    (pc = "format_for_claude" /\ comments # <<>>) =>
        LET L      == Rendered
            title  == LinesWith(L, "**PR Title:** ")
            url    == LinesWith(L, "**PR URL:** ")
            extra  == Len(title) + Len(url)
            footer == IndexOf(L, "## Instructions for Addressing Comments")
        IN  /\ L[1] = "# Pull Request Review Comments"
            /\ title = IF Provided(options.pr_title)
                       THEN <<"**PR Title:** " \o options.pr_title>> ELSE <<>>
            /\ url = IF Provided(options.pr_url)
                     THEN <<"**PR URL:** " \o options.pr_url>> ELSE <<>>
            /\ Provided(options.pr_title) => L[2] = title[1]
            /\ Provided(options.pr_url) => L[1 + extra] = url[1]
            /\ StartsWith(L[2 + extra], "**Total Comments:** ")
            /\ StartsWith(L[3 + extra], "**Files Affected:** ")
            /\ SubSeq(L, 4 + extra, 11 + extra) =
                 <<"",
                   "Below are the review comments that need to be addressed. Each comment includes:",
                   "- The file path and line number(s)",
                   "- A code snippet showing the context",
                   "- The reviewer's comment/feedback",
                   "", "---", "">>
            /\ footer > 0
            /\ footer + 6 = Len(L)
            /\ SubSeq(L, footer + 1, Len(L)) =
                 <<"",
                   "Please review each comment above and make the necessary changes to the code.",
                   "For each comment, consider:",
                   "1. What specific change is being requested?",
                   "2. Is the suggestion valid and should be implemented?",
                   "3. Are there any related changes needed in other parts of the codebase?">>
            /\ \A k \in 1..Len(L) : StartsWith(L[k], "## File: ") => k < footer
            /\ \A i \in 1..Len(comments) : \A k \in BodyLines(L, i) : k < footer

\* an empty title is not written, a URL is; two files precede the footer
C20_Witness ==
    /\ pc = "format_for_claude"
    /\ Cardinality(FilesOf(comments)) = 2
    /\ options.pr_title = ""
    /\ options.pr_url # NoneStr
    /\ LET L == Rendered
       IN  /\ L[2] = "**PR URL:** " \o options.pr_url
           /\ L[3] = "**Total Comments:** 2"
           /\ L[Len(L)] = "3. Are there any related changes needed in other parts of the codebase?"

C30_StableOrder ==
    (pc \in Grouping \cup {"format_comments_flat"} /\ comments # <<>>) =>
        LET L  == Rendered
            n  == Len(comments)
            at == Places(L)
            SameKey(a, b) ==
                CASE pc = "format_comments_flat" -> a.updated_at = b.updated_at
                  [] pc = "format_comments_minimal" ->
                         /\ a.file_path = b.file_path
                         /\ LineOrZero(a) = LineOrZero(b)
                  [] OTHER ->
                         /\ a.file_path = b.file_path
                         /\ LineOrZero(a) = LineOrZero(b)
                         /\ a.updated_at = b.updated_at
        IN  \A i, j \in 1..n :
               (i < j /\ SameKey(comments[i], comments[j])) => at[i] < at[j]

\* three records of equal updated_at in the flat rendering (most recent
\* first), in their input order
C30_Witness ==
    /\ pc = "format_comments_flat"
    /\ Len(comments) = 3
    /\ comments[1].updated_at = comments[2].updated_at
    /\ comments[2].updated_at = comments[3].updated_at
    /\ comments[1].file_path # comments[2].file_path
    /\ LET at == Places(Rendered) IN at[1] < at[2] /\ at[2] < at[3]

----------------------------------------------------------------------------
(* Properties of the body preview and of the code block.  In SpecBlocks    *)
(* the i-th input record is on line i of a.py and its body begins with     *)
(* "c<i> ".                                                                 *)

\* C18: in the minimal rendering the row of a comment ends with a preview
\* that is the first 100 characters of the body with each newline turned
\* into a space, followed by "..." exactly when the body has more than 100
\* characters; the preview holds no newline (every comment takes one row)
\* and has at most 103 characters.
C18_MinimalPreview ==
    (pc = "format_comments_minimal" /\ comments # <<>>) =>
        LET L == Rendered
            n == Len(comments)
        IN  /\ Len(L) = n + 4
            /\ \A i \in 1..n :
                 LET body == comments[i].body
                     lead == "  " \o BRANCH \o " " \o get_line_info(comments[i])
                                \o " (" \o comments[i].author \o "): "
                     rows == LinesWith(L, lead)
                     cut  == IF Len(body) > PREVIEW_LENGTH THEN PREVIEW_LENGTH ELSE Len(body)
                 IN  /\ Len(rows) = 1
                     /\ LET p == SubSeq(rows[1], Len(lead) + 1, Len(rows[1]))
                        IN  /\ Len(p) = cut + (IF Len(body) > PREVIEW_LENGTH THEN 3 ELSE 0)
                            /\ \A k \in 1..cut :
                                 CharAt(p, k) = IF CharAt(body, k) = "\n" THEN " "
                                                ELSE CharAt(body, k)
                            /\ Len(body) > PREVIEW_LENGTH => SubSeq(p, cut + 1, cut + 3) = "..."
                            /\ \A k \in 1..Len(p) : CharAt(p, k) # "\n"
                            /\ Len(p) <= PREVIEW_LENGTH + 3

\* a body of 101 characters whose 100th is a newline: the preview ends with
\* the space that replaces it and the ellipsis
C18_Witness ==
    /\ pc = "format_comments_minimal"
    /\ Len(comments) = 1
    /\ Len(comments[1].body) = PREVIEW_LENGTH + 1
    /\ CharAt(comments[1].body, PREVIEW_LENGTH) = "\n"
    /\ EndsWith(Rendered[4], "x ...")
    /\ Len(Rendered) = 5

Snippets == {"format_comment_for_llm", "format_comments_grouped", "format_comments_flat",
             "format_for_claude"}

\* the records a call renders
Shown == IF pc = "format_comment_for_llm" THEN {1} ELSE 1..Len(comments)

CommentHead(c) ==
    IF pc = "format_for_claude" THEN "### " \o get_line_info(c)
    ELSE "### " \o c.file_path \o " (" \o get_line_info(c) \o ")"

BlockLabel == IF pc = "format_for_claude" THEN "**Code being reviewed:**" ELSE "**Code context:**"

BodyLabel == IF pc = "format_for_claude" THEN "**Review comment:**" ELSE "**Comment:**"

\* how many lines of L from position a to position b are the line l
Count(L, a, b, l) == Cardinality({ k \in a..b : L[k] = l })

\* C19: in format_comment_for_llm and in the grouped, flat and Claude
\* renderings, between the heading of a comment and the label of its body
\* there is a labelled fenced block holding get_code_snippet(snippet_lines)
\* when include_snippet is true and that snippet is not empty, and neither a
\* label nor a fence otherwise; with include_snippet false the output has no
\* fence at all; the body follows its label in full in both cases.
C19_SnippetBlock ==
    (pc \in Snippets /\ comments # <<>>) =>
        LET L == Rendered
        IN  /\ ~options.include_snippet =>
                 Count(L, 1, Len(L), FENCE) + Count(L, 1, Len(L), BlockLabel) = 0
            /\ \A i \in Shown :
                 LET c       == comments[i]
                     h       == IndexOf(L, CommentHead(c))
                     b       == IndexOf(L, Split(c.body)[1])
                     snippet == get_code_snippet(c, options.snippet_lines)
                     block   == <<BlockLabel, FENCE>> \o Split(snippet) \o <<FENCE, "">>
                 IN  /\ 0 < h
                     /\ h < b - 1
                     /\ L[b - 1] = BodyLabel
                     /\ SubSeq(L, b, b + Len(Split(c.body)) - 1) = Split(c.body)
                     /\ IF options.include_snippet /\ snippet # ""
                        THEN /\ b - 1 - Len(block) > h
                             /\ SubSeq(L, b - 1 - Len(block), b - 2) = block
                             /\ Count(L, h, b, FENCE) = 2
                             /\ Count(L, h, b, BlockLabel) = 1
                        ELSE Count(L, h, b, FENCE) + Count(L, h, b, BlockLabel) = 0

\* snippets are asked for, one line each: the first comment, whose hunk is
\* only a header, has no block and the second has one with its last line
C19_Witness ==
    /\ pc = "format_comments_grouped"
    /\ options.include_snippet
    /\ options.snippet_lines = 1
    /\ Len(comments) = 2
    /\ comments[1].diff_hunk = "@@ -1 +1 @@"
    /\ comments[2].diff_hunk = "@@ -1 +1 @@\n ctx\n+new"
    /\ LET L == Rendered
       IN  /\ Count(L, 1, Len(L), FENCE) = 2
           /\ Count(L, 1, IndexOf(L, comments[1].body), FENCE) = 0
           /\ \E k \in 2..(Len(L) - 1) : L[k - 1] = FENCE /\ L[k] = "+new" /\ L[k + 1] = FENCE

----------------------------------------------------------------------------
(* Properties of the command.  Raw is what the comment fetch returns in    *)
(* SpecRun, where the id of a raw record is its position.                  *)

\* what gh answers for the two endpoints of a pull request
CommentsAnswer(t) == DictGet(github, comments_endpoint(t[1], t[2], t[3]), NOT_FOUND)

InfoAnswer(t) == DictGet(github, info_endpoint(t[1], t[2], t[3]), NOT_FOUND)

\* the process failed, or printed what is not JSON
Fails(answer) == answer.returncode # 0 \/ answer.loads.raised # ""

\* the pull request the command line names, if it names one
Target == resolve(options)

CallOf(fn, t) == [fn |-> fn, owner |-> t[1], repo |-> t[2], pr_number |-> t[3]]

\* nothing rendered went to stdout or to a file
NoOutput == stdout = <<>> /\ written = EmptyDict

C23_FetchFailure ==
    (pc = "main" /\ Target.raised = "") =>
        LET t == Target.value
            c == CommentsAnswer(t)
            i == InfoAnswer(t)
            Message(answer, failed) ==
                IF answer.returncode # 0 THEN failed \o answer.stderr
                ELSE "Failed to parse API response: " \o answer.loads.message
        IN  /\ calls = IF Fails(c) THEN <<CallOf("fetch_pr_comments", t)>>
                       ELSE <<CallOf("fetch_pr_comments", t), CallOf("fetch_pr_info", t)>>
            /\ (Fails(c) \/ Fails(i)) =>
                  /\ result = Return(1)
                  /\ NoOutput
                  /\ stderr = <<"Error: " \o (IF Fails(c)
                                              THEN Message(c, "Failed to fetch PR comments: ")
                                              ELSE Message(i, "Failed to fetch PR info: "))>>

\* the comments are fetched, the pull request is not: the json form, which
\* does not use the pull request, is not written either
C23_Witness ==
    /\ pc = "main"
    /\ options.pr = "o/r#12"
    /\ options.format = "json"
    /\ options.output = "out.md"
    /\ ~Fails(CommentsAnswer(<<OWNER, REPO, PR_NUMBER>>))
    /\ InfoAnswer(<<OWNER, REPO, PR_NUMBER>>) = EXIT_1
    /\ Len(calls) = 2
    /\ result = Return(1)
    /\ NoOutput
    /\ stderr = <<"Error: Failed to fetch PR info: gh: Bad credentials (HTTP 401)">>

Raw == github[comments_endpoint(OWNER, REPO, PR_NUMBER)].loads.value

\* a timestamp of the raw record is present and is not a timestamp
MalformedTimestamp(cd) ==
    \E key \in {"created_at", "updated_at"} :
        key \in DOMAIN cd /\ cd[key] # NoneStr /\ cd[key] \notin DOMAIN IsoTable

\* C25: one raw record with a malformed created_at or updated_at, wherever
\* it stands, makes main end with the ValueError of the parse: main catches
\* and reports nothing, no record is rendered, and nothing is written to
\* stdout or to a file
C25_MalformedTimestamp ==
    (pc = "main" /\ \E k \in 1..Len(Raw) : MalformedTimestamp(Raw[k])) =>
        /\ result = Raise("ValueError")
        /\ comments = <<>>
        /\ NoOutput
        /\ stderr = <<>>

\* a good record followed by one with a malformed updated_at
C25_Witness ==
    /\ pc = "main"
    /\ Len(Raw) = 2
    /\ ~MalformedTimestamp(Raw[1])
    /\ Raw[2]["updated_at"] = "not-a-date"
    /\ options.output = "out.md"
    /\ result = Raise("ValueError")
    /\ Len(calls) = 2
    /\ NoOutput

\* the text main wrote
Output == IF TruthyStr(options.output) THEN written[options.output] ELSE stdout[1]

\* C22: the json form is an array with one object for each record that left
\* the filter stage, in that order, whose six members are file (file_path),
\* line (line_number, null when absent), author, body, snippet and url
\* (html_url); snippet is get_code_snippet(snippet_lines) when snippets are
\* enabled and null in every object under --no-snippet
C22_JsonEntries ==
    (pc = "main" /\ options.format = "json" /\ result = Return(0)) =>
        LET L == Split(Output) \o <<>>
            n == Len(comments)
            Member(key, text, last) ==
                "    \"" \o key \o "\": " \o text \o (IF last THEN "" ELSE ",")
        IN  IF n = 0 THEN Output = "[]"
            ELSE /\ Len(L) = 8 * n + 2
                 /\ L[1] = "["
                 /\ L[Len(L)] = "]"
                 /\ \A k \in 1..n :
                       LET c   == comments[k]
                           at  == 8 * (k - 1) + 1
                       IN  /\ L[at + 1] = "  {"
                           /\ L[at + 2] = Member("file", json_str(c.file_path), FALSE)
                           /\ L[at + 3] = Member("line", IF c.line_number = None THEN "null"
                                                         ELSE ToString(c.line_number[1]), FALSE)
                           /\ L[at + 4] = Member("author", json_str(c.author), FALSE)
                           /\ L[at + 5] = Member("body", json_str(c.body), FALSE)
                           /\ L[at + 6] = Member("snippet",
                                  IF options.no_snippet THEN "null"
                                  ELSE json_str(get_code_snippet(c, options.snippet_lines)),
                                  FALSE)
                           /\ L[at + 7] = Member("url", json_str(c.html_url), TRUE)
                           /\ L[at + 8] = (IF k < n THEN "  }," ELSE "  }")

\* two records under --no-snippet, the second without a line: two objects,
\* both with a null snippet, the second with a null line
C22_Witness ==
    /\ pc = "main"
    /\ options.format = "json"
    /\ options.no_snippet
    /\ options.output = NoneStr
    /\ Len(comments) = 2
    /\ comments[1].diff_hunk # ""
    /\ comments[2].line_number = None
    /\ LET L == Split(stdout[1])
       IN  /\ Len(L) = 18
           /\ L[7] = "    \"snippet\": null,"
           /\ L[12] = "    \"line\": null,"
           /\ L[15] = "    \"snippet\": null,"

\* C29: with --author and --most-recent both given, main keeps one record
\* for every file the author commented on and no other record; the record
\* kept for a file is by that author and no comment of that author on the
\* file is more recent, whatever other authors wrote later
C29_AuthorThenMostRecent ==
    (pc = "main" /\ result = Return(0) /\ TruthyStr(options.author) /\ options.most_recent) =>
        LET By(i)    == Raw[i]["user"][1]["login"] = options.author
            File(i)  == Raw[i]["path"]
            authored == { i \in 1..Len(Raw) : By(i) }
            paths    == { File(i) : i \in authored }
        IN  /\ Len(comments) = Cardinality(paths)
            /\ \A f \in paths : \E k \in 1..Len(comments) : comments[k].file_path = f
            /\ \A k \in 1..Len(comments) :
                  LET c == comments[k]
                  IN  /\ c.id \in authored
                      /\ c.author = options.author
                      /\ c.file_path = File(c.id)
                      /\ c.updated_at = IsoTable[Raw[c.id]["updated_at"]]
                      /\ \A i \in authored :
                            File(i) = c.file_path =>
                                IsoTable[Raw[i]["updated_at"]] <= c.updated_at

\* alice commented on a file and bob commented on it later: alice's comment
\* is the one kept
C29_Witness ==
    /\ pc = "main"
    /\ options.author = "alice"
    /\ options.most_recent
    /\ Len(Raw) = 2
    /\ Raw[1]["path"] = Raw[2]["path"]
    /\ Raw[1]["user"][1]["login"] = "alice"
    /\ Raw[2]["user"][1]["login"] = "bob"
    /\ Raw[1]["updated_at"] = "2026-01-30T10:00:00Z"
    /\ Raw[2]["updated_at"] = "2026-01-30T15:30:00Z"
    /\ Len(comments) = 1
    /\ comments[1].id = 1

====
